---- MODULE Spec2Model ----
(***************************************************************************)
(* Model of the prime-validation core of PrimeGeometricPredictor:          *)
(*   - the three sieves of EnhancedPrimeValidator and their dispatcher,    *)
(*   - the checkpoint store (save_checkpoint / load_checkpoint),           *)
(*   - the sequential, checkpointed scan of validate_primality_test,       *)
(*   - the batch fan-out of validate_primality_test_distributed.           *)
(* Python sets are TLA+ sets, lists are sequences, dicts are functions     *)
(* from key strings to values.                                             *)
(***************************************************************************)
EXTENDS Integers, Sequences, FiniteSets, TLC

VARIABLES
    \* ---- inputs shared by all operations
    limit,                  \* the limit argument
    low_memory,             \* self.low_memory
    \* ---- sieve calls
    segment_size,           \* the segment_size argument of the segmented sieve
    method,                 \* the method argument of the last generate_known_primes call
    sieve_ran,              \* the sieve entry points that have returned
    sieve_out,              \* entry point -> the set it returned
    \* ---- the output directory
    fs,                     \* file name -> file content
    \* ---- direct calls of save_checkpoint / load_checkpoint
    st_hist,                \* limit -> the record most recently handed to save_checkpoint
    st_last,                \* the limit of the most recent save_checkpoint call
    st_loaded,              \* what the most recent load_checkpoint call returned
    \* ---- validate_primality_test (sequential path)
    pc,                     \* position of the run
    classifier,             \* which classifier self.classifier is
    known_primes_arg,       \* the known_primes argument: None or a supplied set
    known_primes,           \* the ground-truth set in use
    batch_size,
    use_checkpoint,
    runs,                   \* number of runs started so far
    ckpt_loaded,            \* what load_checkpoint returned to this run
    found,                  \* the checkpoint file as this run found it
    start,
    batch_start,
    n,
    true_positives,
    false_positives,
    false_negatives,
    false_positive_numbers,
    false_negative_numbers,
    results,                \* the returned results dict
    \* ---- validate_primality_test_distributed
    num_processes,
    batches,                \* the list of (batch_start, batch_end)
    next_task,              \* index of the next batch the pool hands out
    worker,                 \* worker -> index of the batch it is processing (0: idle)
    batch_results,          \* batch index -> result of validate_primality_test_batch
    times_processed,        \* batch index -> how many times a worker returned its result
    pool_error,             \* the first exception a worker sent back to the pool
    \* ---- the call as its caller sees it
    raising,                \* the numbers on which self.classifier.is_prime raises
    entry_point,            \* the function the caller called
    distributed,            \* the distributed argument of validate_primality_test
    strategy,               \* the sieve that generated known_primes
    error,                  \* the exception the call raised to its caller
    sink,                   \* the calls made on the result sink, in order
    processes_arg,          \* args.processes of the command line
    \* ---- a PrimeClassifier object
    prime_cache,            \* self.prime_cache: number -> cached answer
    is_prime_calls,         \* number of calls of is_prime made on the object
    is_prime_last,          \* the last call of is_prime: its n, what it returned,
                            \* and whether the answer came from prime_cache
    \* ---- load_known_primes_from_file
    file_exists,            \* whether the filepath of the call names a file
    load_pc,                \* where the call is: idle, reading, line, returned
    line,                   \* the line the loop holds
    lines_read,             \* number of lines read so far
    loaded                  \* the local known_primes of the call

sieveVars == <<segment_size, method, sieve_ran, sieve_out>>
storeVars == <<st_hist, st_last, st_loaded>>
scanVars  == <<pc, classifier, known_primes_arg, known_primes, batch_size,
               use_checkpoint, runs, ckpt_loaded, found, start, batch_start, n, true_positives, false_positives,
               false_negatives, false_positive_numbers, false_negative_numbers,
               results>>
distVars  == <<num_processes, batches, next_task, worker, batch_results, times_processed,
               pool_error>>
callVars  == <<raising, entry_point, distributed, strategy, error, sink, processes_arg>>
classifierVars == <<prime_cache, is_prime_calls, is_prime_last>>
importVars == <<file_exists, load_pc, line, lines_read, loaded>>
vars == <<limit, low_memory, fs, sieveVars, storeVars, scanVars, distVars, callVars,
          classifierVars, importVars>>

(***************************************************************************)
(* Bounds of the model.                                                    *)
(***************************************************************************)
MaxSieveLimit == 30
MaxSegment == 8
MaxLimit == 9
MaxBatch == 3
MaxRuns == 2
ScenarioLimit == 100
MaxWorkers == 2
MaxStoreDigits == 2
MaxStoreVal == 1
MaxNegLimit == 2
MaxCallLimit == 4
CapScenarioLimit == 203
MaxClassified == 26
MaxIsPrimeCalls == 3
MaxLineLen == 3
MaxFileLines == 2
MaxPermuted == 5
SampleScenarioLimit == 2003

(***************************************************************************)
(* Program constants.                                                      *)
(***************************************************************************)
DEFAULT_SEGMENT_SIZE == 10000000
AUTO_STANDARD_MAX == 10000000
AUTO_BIT_MAX == 100000000
SAMPLE_CAP == 1000
BATCH_SAMPLE_CAP == 100
COMBINED_SAMPLE_CAP == 1000
DEFAULT_BATCH_SIZE == 1000000

Min(a, b) == IF a < b THEN a ELSE b

\* int(np.sqrt(x)) / int(math.sqrt(x)) for x >= 0
ISqrt(x) == CHOOSE k \in 0..x : k * k <= x /\ (k + 1) * (k + 1) > x

(***************************************************************************)
(* Sieves.  A numpy array is a function on 0..size-1.                      *)
(***************************************************************************)
\* arr[from::step] = value  (indices past the end are clipped, as numpy does)
SliceAssign(arr, from, step, value) ==
    [k \in DOMAIN arr |->
        IF k >= from /\ (k - from) % step = 0 THEN value ELSE arr[k]]

\* for i in range(i, last + 1): if sieve[i]: sieve[i*i::i] = False
RECURSIVE StandardLoop(_, _, _)
StandardLoop(sieve, i, last) ==
    IF i > last THEN sieve
    ELSE StandardLoop(IF sieve[i] THEN SliceAssign(sieve, i * i, i, FALSE) ELSE sieve,
                      i + 1, last)

\* the sieve loop stopping one short: range(2, int(np.sqrt(limit)))
generate_known_primes_standard_offbyone(lim) ==
    LET sieve0 == [k \in 0..lim |-> k >= 2]
        sieve  == StandardLoop(sieve0, 2, ISqrt(lim) - 1)
    IN  {k \in DOMAIN sieve : sieve[k]}

generate_known_primes_standard(lim) ==
    LET sieve0 == [k \in 0..lim |-> k >= 2]      \* np.ones, then sieve[0:2] = False
        sieve  == StandardLoop(sieve0, 2, ISqrt(lim))
    IN  {k \in DOMAIN sieve : sieve[k]}

\* PrimeValidator.generate_known_primes: the same sieve, in prime_validator.py
RECURSIVE PrimeValidatorLoop(_, _, _)
PrimeValidatorLoop(sieve, i, last) ==
    IF i > last THEN sieve
    ELSE PrimeValidatorLoop(IF sieve[i] THEN SliceAssign(sieve, i * i, i, FALSE) ELSE sieve,
                            i + 1, last)

PrimeValidator_generate_known_primes(lim) ==
    LET sieve0 == [k \in 0..lim |-> k >= 2]
        sieve  == PrimeValidatorLoop(sieve0, 2, ISqrt(lim))
    IN  {k \in DOMAIN sieve : sieve[k]}

\* for i in range(i, last + 1): if sieve[i]: p = 2i+1; sieve[(p*p-1)//2::p] = 0
RECURSIVE BitLoop(_, _, _)
BitLoop(sieve, i, last) ==
    IF i > last THEN sieve
    ELSE LET p == 2 * i + 1
             start_idx == (p * p - 1) \div 2
         IN  BitLoop(IF sieve[i] # 0 THEN SliceAssign(sieve, start_idx, p, 0) ELSE sieve,
                     i + 1, last)

generate_known_primes_bit_sieve(lim) ==
    LET sieve_size == (lim - 1) \div 2           \* floor division: -1 for lim = 0
        sieve0 == [k \in 0..sieve_size |-> 1]    \* np.ones(sieve_size + 1)
        sieve  == BitLoop(sieve0, 1, ISqrt(lim) \div 2)
    IN  {2} \cup {2 * i + 1 : i \in {k \in DOMAIN sieve : sieve[k] # 0 /\ k > 0}}

\* one pass of the segment loop, then the rest of the segments
RECURSIVE SegmentLoop(_, _, _, _, _)
SegmentLoop(base_primes, segment_start, lim, seg, all_primes) ==
    IF segment_start > lim THEN all_primes
    ELSE LET segment_end == Min(segment_start + seg - 1, lim)
             StartIdx(p) ==
                 LET s == ((segment_start + p - 1) \div p) * p
                 IN  IF s < segment_start THEN s + p ELSE s
             marked == UNION {{i \in StartIdx(p)..segment_end :
                                   (i - StartIdx(p)) % p = 0} : p \in base_primes}
             segment_primes == (segment_start..segment_end) \ marked
         IN  SegmentLoop(base_primes, segment_start + seg, lim, seg,
                         all_primes \cup segment_primes)

\* the windows starting one number late: range(sqrt_limit + 2, limit + 1, ...)
generate_known_primes_segmented_latestart(lim, seg) ==
    LET sqrt_limit == ISqrt(lim)
        base_primes == generate_known_primes_standard(sqrt_limit)
    IN  SegmentLoop(base_primes, sqrt_limit + 2, lim, seg, base_primes)

generate_known_primes_segmented(lim, seg) ==
    LET sqrt_limit == ISqrt(lim)
        base_primes == generate_known_primes_standard(sqrt_limit)
    IN  SegmentLoop(base_primes, sqrt_limit + 1, lim, seg, base_primes)

generate_known_primes(lim, meth, lowmem) ==
    IF meth = "standard" \/ (meth = "auto" /\ lim <= AUTO_STANDARD_MAX /\ ~lowmem)
    THEN generate_known_primes_standard(lim)
    ELSE IF meth = "bit" \/ (meth = "auto" /\ lim <= AUTO_BIT_MAX)
    THEN generate_known_primes_bit_sieve(lim)
    ELSE generate_known_primes_segmented(lim, DEFAULT_SEGMENT_SIZE)

\* the branch of generate_known_primes that is taken
SelectStrategy(lim, meth, lowmem) ==
    IF meth = "standard" \/ (meth = "auto" /\ lim <= AUTO_STANDARD_MAX /\ ~lowmem)
    THEN "standard"
    ELSE IF meth = "bit" \/ (meth = "auto" /\ lim <= AUTO_BIT_MAX)
    THEN "bit"
    ELSE "segmented"

(***************************************************************************)
(* Exceptions.  A call either returns or raises one exception to its       *)
(* caller; an exception is its type and its args.                          *)
(***************************************************************************)
NoError == [raised |-> FALSE, type |-> "", args |-> <<>>]
Raise(type, args) == [raised |-> TRUE, type |-> type, args |-> args]

\* np.ones(limit + 1) with limit < -1, int(np.sqrt(limit)) and
\* math.sqrt(limit) with limit < 0 raise ValueError: every sieve raises on a
\* negative limit
SieveRaises(lim) == lim < 0

\* args.processes when --processes is not given
NoProcesses == [none |-> TRUE, value |-> 0]

(***************************************************************************)
(* The checkpoint store.  A file of the output directory holds what        *)
(* pickle.dump wrote: the items of the dict, in insertion order.           *)
(***************************************************************************)
\* Python's None as the value of load_checkpoint, or the dict it returned
PyNone == [none |-> TRUE, data |-> <<>>]
PyDict(d) == [none |-> FALSE, data |-> d]

CheckpointKeys ==
    <<"last_processed", "true_positives", "false_positives", "false_negatives",
      "timestamp">>

DigitChars == <<"0", "1", "2", "3", "4", "5", "6", "7", "8", "9">>

\* str(k), one character per element
RECURSIVE IntToStr(_)
IntToStr(k) ==
    IF k < 0 THEN <<"-">> \o IntToStr(-k)
    ELSE IF k < 10 THEN <<DigitChars[k + 1]>>
    ELSE IntToStr(k \div 10) \o <<DigitChars[(k % 10) + 1]>>

\* the file name built from the last digit of the limit only
CheckpointFile_lastdigit(lim) == <<"checkpoint_">> \o IntToStr(lim % 10) \o <<".pkl">>

\* f"checkpoint_{limit}.pkl" in self.output_dir
CheckpointFile(lim) == <<"checkpoint_">> \o IntToStr(lim) \o <<".pkl">>

\* pickle.dump(d, f) for a dict d
Pickle(d) ==
    LET keys == SelectSeq(CheckpointKeys, LAMBDA k : k \in DOMAIN d)
    IN  [kind |-> "dict", items |-> [i \in DOMAIN keys |-> <<keys[i], d[keys[i]]>>]]

\* pickle.load(f) of a file that holds a pickled dict
Unpickle(content) ==
    [k \in {content.items[i][1] : i \in DOMAIN content.items} |->
        LET i == CHOOSE j \in DOMAIN content.items : content.items[j][1] = k
        IN  content.items[i][2]]

\* file contents that pickle.load cannot decode, and a pickled non-dict value
GarbageFile == [kind |-> "garbage", items |-> <<>>]
NonRecordFile == [kind |-> "other", items |-> <<>>]

\* a save that leaves the timestamp out of the record
save_checkpoint_notimestamp(files, checkpoint_data, lim) ==
    LET kept == [k \in DOMAIN checkpoint_data \ {"timestamp"} |-> checkpoint_data[k]]
    IN  (CheckpointFile(lim) :> Pickle(kept)) @@ files

\* save_checkpoint: the files after the call
save_checkpoint(files, checkpoint_data, lim) ==
    (CheckpointFile(lim) :> Pickle(checkpoint_data)) @@ files

\* a load that returns the cursor of the file with counters of 0
load_checkpoint_cursoronly(files, lim) ==
    LET checkpoint_file == CheckpointFile(lim)
    IN  IF checkpoint_file \in DOMAIN files
        THEN LET content == files[checkpoint_file]
             IN  IF content.kind = "garbage" THEN PyNone
                 ELSE IF content.kind # "dict" THEN PyNone
                 ELSE IF "last_processed" \notin DOMAIN Unpickle(content) THEN PyNone
                 ELSE PyDict([k \in DOMAIN Unpickle(content) |->
                                 IF k \in {"last_processed", "timestamp"}
                                 THEN Unpickle(content)[k] ELSE 0])
        ELSE PyNone

\* load_checkpoint: the value returned.  Any exception of pickle.load or of the
\* print of checkpoint_data['last_processed'] is caught and gives None.
load_checkpoint(files, lim) ==
    LET checkpoint_file == CheckpointFile(lim)
    IN  IF checkpoint_file \in DOMAIN files
        THEN LET content == files[checkpoint_file]
             IN  IF content.kind = "garbage" THEN PyNone
                 ELSE IF content.kind # "dict" THEN PyNone
                 ELSE IF "last_processed" \notin DOMAIN Unpickle(content) THEN PyNone
                 ELSE PyDict(Unpickle(content))
        ELSE PyNone

(***************************************************************************)
(* The candidate classifier, self.classifier.is_prime.                     *)
(***************************************************************************)
\* trial division by range(3, int(math.sqrt(k)), 2), which leaves the root out
PrimeClassifier_is_prime_rootless(k) ==
    IF k < 2 THEN FALSE
    ELSE IF k = 2 \/ k = 3 THEN TRUE
    ELSE IF k % 2 = 0 THEN FALSE
    ELSE \A i \in {j \in 3..(ISqrt(k) - 1) : j % 2 = 1} : k % i # 0

\* PrimeClassifier.is_prime: trial division by the odd numbers up to sqrt(k)
PrimeClassifier_is_prime(k) ==
    IF k < 2 THEN FALSE
    ELSE IF k = 2 \/ k = 3 THEN TRUE
    ELSE IF k % 2 = 0 THEN FALSE
    ELSE \A i \in {j \in 3..ISqrt(k) : j % 2 = 1} : k % i # 0

\* the classifiers a validator is run with: the repository's own, and the
\* stand-ins 'odd and > 1', 'everything', 'nothing'
Classifiers == {"is_prime", "odd_gt1", "always", "never"}

Classify(c, k) ==
    CASE c = "is_prime" -> PrimeClassifier_is_prime(k)
      [] c = "odd_gt1"  -> k > 1 /\ k % 2 = 1
      [] c = "always"   -> TRUE
      [] OTHER          -> FALSE

\* a classifier that raises on no number
NeverRaises == [at |-> {}, names_n |-> FALSE]

\* self.classifier.is_prime(k) raises instead of returning
ClassifierRaises(R, k) == k \in R.at

\* the exception it raises: its args name k only if the classifier put k there
ClassifierException(R, k) ==
    Raise("ClassifierError", IF R.names_n THEN <<k>> ELSE <<>>)

(***************************************************************************)
(* The scan of validate_primality_test.                                    *)
(***************************************************************************)
Counters(tp, fp, fn, fpn, fnn) ==
    [true_positives |-> tp, false_positives |-> fp, false_negatives |-> fn,
     false_positive_numbers |-> fpn, false_negative_numbers |-> fnn]

ZeroCounters == Counters(0, 0, 0, <<>>, <<>>)

\* the loop body without the skip of even numbers
ScanStep_countall(st, k, c, G) ==
    LET is_prime == Classify(c, k)
        is_known_prime == k \in G
    IN  IF is_prime /\ is_known_prime
        THEN [st EXCEPT !.true_positives = @ + 1]
        ELSE IF is_prime /\ ~is_known_prime
        THEN [st EXCEPT !.false_positives = @ + 1]
        ELSE IF ~is_prime /\ is_known_prime
        THEN [st EXCEPT !.false_negatives = @ + 1]
        ELSE st

\* a loop body whose full sample lists drop their oldest number for the new one
ScanStep_keeplatest(st, k, c, G) ==
    IF k > 2 /\ k % 2 = 0 THEN st
    ELSE LET is_prime == Classify(c, k)
             is_known_prime == k \in G
         IN  IF is_prime /\ is_known_prime
             THEN [st EXCEPT !.true_positives = @ + 1]
             ELSE IF is_prime /\ ~is_known_prime
             THEN [st EXCEPT !.false_positives = @ + 1,
                             !.false_positive_numbers =
                                 IF Len(@) < SAMPLE_CAP THEN Append(@, k)
                                 ELSE Append(Tail(@), k)]
             ELSE IF ~is_prime /\ is_known_prime
             THEN [st EXCEPT !.false_negatives = @ + 1,
                             !.false_negative_numbers =
                                 IF Len(@) < SAMPLE_CAP THEN Append(@, k)
                                 ELSE Append(Tail(@), k)]
             ELSE st

\* the body of the loop over n: the counters after number k
ScanStep(st, k, c, G) ==
    IF k > 2 /\ k % 2 = 0 THEN st
    ELSE LET is_prime == Classify(c, k)
             is_known_prime == k \in G
         IN  IF is_prime /\ is_known_prime
             THEN [st EXCEPT !.true_positives = @ + 1]
             ELSE IF is_prime /\ ~is_known_prime
             THEN [st EXCEPT !.false_positives = @ + 1,
                             !.false_positive_numbers =
                                 IF Len(@) < SAMPLE_CAP THEN Append(@, k) ELSE @]
             ELSE IF ~is_prime /\ is_known_prime
             THEN [st EXCEPT !.false_negatives = @ + 1,
                             !.false_negative_numbers =
                                 IF Len(@) < SAMPLE_CAP THEN Append(@, k) ELSE @]
             ELSE st

\* the scan from k to last with no checkpoint and no interruption
\* the loop over k..last, run as the loop over k..mid followed by the loop
\* over mid+1..last
RECURSIVE ScanRange(_, _, _, _, _)
ScanRange(st, k, last, c, G) ==
    IF k > last THEN st
    ELSE IF k = last THEN ScanStep(st, k, c, G)
    ELSE LET mid == (k + last) \div 2
             half == ScanRange(st, k, mid, c, G)
         IN  \* the counters of the first half are evaluated before the
             \* second half starts
             IF half.true_positives >= 0
             THEN ScanRange(half, mid + 1, last, c, G) ELSE half

\* the counters of validate_primality_test(limit, known_primes) run in one pass
UninterruptedScan(lim, c, G) == ScanRange(ZeroCounters, 2, lim, c, G)

(***************************************************************************)
(* The derived metrics.  A Python number is the fraction num/den; den = 0  *)
(* stands for the ZeroDivisionError a division by zero raises.             *)
(***************************************************************************)
Number(k) == [num |-> k, den |-> 1]
DivisionByZero == [num |-> 0, den |-> 0]

\* a / b
PyTrueDiv(a, b) ==
    IF a.den = 0 \/ b.den = 0 \/ b.num = 0 THEN DivisionByZero
    ELSE [num |-> a.num * b.den, den |-> a.den * b.num]

PyAdd(a, b) ==
    IF a.den = 0 \/ b.den = 0 THEN DivisionByZero
    ELSE [num |-> a.num * b.den + b.num * a.den, den |-> a.den * b.den]

PyMul(a, b) ==
    IF a.den = 0 \/ b.den = 0 THEN DivisionByZero
    ELSE [num |-> a.num * b.num, den |-> a.den * b.den]

\* a > 0, for a that is no error
Positive(a) == a.num > 0

\* len([p for p in known_primes if p <= limit]) without the filter on p
TotalKnownPrimes_unfiltered(G, lim) == Cardinality(G)

\* total_known_primes = len([p for p in known_primes if p <= limit])
TotalKnownPrimes(G, lim) == Cardinality({p \in G : p <= lim})

\* precision = tp / (tp + fp) if (tp + fp) > 0 else 0
Precision(tp, fp) ==
    IF tp + fp > 0 THEN PyTrueDiv(Number(tp), Number(tp + fp)) ELSE Number(0)

\* recall = tp / (tp + fn) if (tp + fn) > 0 else 0
Recall(tp, fn) ==
    IF tp + fn > 0 THEN PyTrueDiv(Number(tp), Number(tp + fn)) ELSE Number(0)

\* f1_score = 2 * precision * recall / (precision + recall)
\*            if (precision + recall) > 0 else 0
F1Score(precision, recall) ==
    IF Positive(PyAdd(precision, recall))
    THEN PyTrueDiv(PyMul(PyMul(Number(2), precision), recall), PyAdd(precision, recall))
    ELSE Number(0)

\* accuracy with the floor division tp // total_known_primes
Accuracy_floordiv(tp, total_known_primes) ==
    IF total_known_primes > 0 THEN Number(tp \div total_known_primes) ELSE Number(0)

\* accuracy = tp / total_known_primes if total_known_primes > 0 else 0
Accuracy(tp, total_known_primes) ==
    IF total_known_primes > 0 THEN PyTrueDiv(Number(tp), Number(total_known_primes))
    ELSE Number(0)

\* a results dict whose mismatch counters are the lengths of the sample lists
CompileResults_countsamples(lim, G, tp, fp, fn, fpn, fnn) ==
    LET total_known_primes == TotalKnownPrimes(G, lim)
        precision == Precision(tp, Len(fpn))
        recall == Recall(tp, Len(fnn))
    IN  [returned |-> TRUE,
         limit |-> lim,
         total_known_primes |-> total_known_primes,
         true_positives |-> tp,
         false_positives |-> Len(fpn),
         false_negatives |-> Len(fnn),
         precision |-> precision,
         recall |-> recall,
         f1_score |-> F1Score(precision, recall),
         accuracy |-> Accuracy(tp, total_known_primes),
         false_positive_numbers |-> fpn,
         false_negative_numbers |-> fnn]

\* the results dict compiled from the counters
CompileResults(lim, G, tp, fp, fn, fpn, fnn) ==
    LET total_known_primes == TotalKnownPrimes(G, lim)
        precision == Precision(tp, fp)
        recall == Recall(tp, fn)
    IN  [returned |-> TRUE,
         limit |-> lim,
         total_known_primes |-> total_known_primes,
         true_positives |-> tp,
         false_positives |-> fp,
         false_negatives |-> fn,
         precision |-> precision,
         recall |-> recall,
         f1_score |-> F1Score(precision, recall),
         accuracy |-> Accuracy(tp, total_known_primes),
         false_positive_numbers |-> fpn,
         false_negative_numbers |-> fnn]

\* a division of the metrics raised ZeroDivisionError
MetricsRaise(r) ==
    \/ r.precision.den = 0
    \/ r.recall.den = 0
    \/ r.f1_score.den = 0
    \/ r.accuracy.den = 0

\* the method validate_primality_test passes to generate_known_primes
RunMethod(lowmem) == IF lowmem THEN "segmented" ELSE "auto"

\* a call that consults the checkpoint whatever its path
LoadsCheckpoint_anypath(dist, uc) == uc

\* whether a call reaches load_checkpoint: only past the return of the
\* distributed path, and only with use_checkpoint
LoadsCheckpoint(dist, uc) == ~dist /\ uc

\* known_primes as validate_primality_test uses it
GetKnownPrimes(arg, lim, lowmem) ==
    IF arg.none
    THEN IF lowmem THEN generate_known_primes(lim, "segmented", lowmem)
         ELSE generate_known_primes(lim, "auto", lowmem)
    ELSE arg.set

\* self.checkpoint_data as __init__ sets it
InitialCheckpointData(now) ==
    [last_processed |-> 0, true_positives |-> 0, false_positives |-> 0,
     false_negatives |-> 0, timestamp |-> now]

CounterKeys == <<"true_positives", "false_positives", "false_negatives">>

\* the state of the checkpoint file of a limit
FileState(files, lim) ==
    LET f == CheckpointFile(lim)
    IN  IF f \notin DOMAIN files THEN "absent"
        ELSE IF files[f].kind # "dict" THEN "malformed"
        ELSE IF \E i \in 1..4 : CheckpointKeys[i] \notin DOMAIN Unpickle(files[f])
        THEN "malformed"
        ELSE "valid"

(***************************************************************************)
(* validate_primality_test_batch and the batches of the distributed run.   *)
(***************************************************************************)
\* the body of the loop over n in validate_primality_test_batch
BatchStep(st, k, c, G) ==
    IF k > 2 /\ k % 2 = 0 THEN st
    ELSE LET is_prime == Classify(c, k)
             is_known_prime == k \in G
         IN  IF is_prime /\ is_known_prime
             THEN [st EXCEPT !.true_positives = @ + 1]
             ELSE IF is_prime /\ ~is_known_prime
             THEN [st EXCEPT !.false_positives = @ + 1,
                             !.false_positive_numbers =
                                 IF Len(@) < BATCH_SAMPLE_CAP THEN Append(@, k) ELSE @]
             ELSE IF ~is_prime /\ is_known_prime
             THEN [st EXCEPT !.false_negatives = @ + 1,
                             !.false_negative_numbers =
                                 IF Len(@) < BATCH_SAMPLE_CAP THEN Append(@, k) ELSE @]
             ELSE st

\* for n in range(k, last + 1), run as the loop over k..mid followed by the
\* loop over mid+1..last
RECURSIVE BatchRange(_, _, _, _, _)
BatchRange(st, k, last, c, G) ==
    IF k > last THEN st
    ELSE IF k = last THEN BatchStep(st, k, c, G)
    ELSE LET mid == (k + last) \div 2
             half == BatchRange(st, k, mid, c, G)
         IN  \* the counters of the first half are evaluated before the
             \* second half starts
             IF half.true_positives >= 0
             THEN BatchRange(half, mid + 1, last, c, G) ELSE half

\* the batch loop over range(start, end), missing the last number
validate_primality_test_batch_exclusive(bstart, bend, c, G) ==
    BatchRange(ZeroCounters, bstart, bend - 1, c, G)

\* the results dict of one batch: for n in range(start, end + 1)
validate_primality_test_batch(bstart, bend, c, G) ==
    BatchRange(ZeroCounters, bstart, bend, c, G)

\* batches whose end is batch_start + batch_size: neighbours overlap
RECURSIVE BatchList_overlap(_, _, _)
BatchList_overlap(bstart, lim, bs) ==
    IF bstart > lim THEN <<>>
    ELSE <<<<bstart, Min(bstart + bs, lim)>>>> \o BatchList_overlap(bstart + bs, lim, bs)

\* for batch_start in range(bstart, limit + 1, batch_size): batches.append(...)
RECURSIVE BatchList(_, _, _)
BatchList(bstart, lim, bs) ==
    IF bstart > lim THEN <<>>
    ELSE <<<<bstart, Min(bstart + bs - 1, lim)>>>> \o BatchList(bstart + bs, lim, bs)

\* a sum that takes the first batch for the whole
SumField_first(rs, key) == IF rs = <<>> THEN 0 ELSE Head(rs)[key]

\* sum(result[key] for result in batch_results)
RECURSIVE SumField(_, _)
SumField(rs, key) ==
    IF rs = <<>> THEN 0 ELSE Head(rs)[key] + SumField(Tail(rs), key)

Take(seq, k) == SubSeq(seq, 1, Min(Len(seq), k))

\* the loop that combines the sampled numbers of the batches
RECURSIVE CombineNumbers(_, _, _)
CombineNumbers(rs, key, acc) ==
    IF rs = <<>> THEN acc
    ELSE LET ext == acc \o Take(Head(rs)[key], BATCH_SAMPLE_CAP)
         IN  CombineNumbers(Tail(rs), key,
                            IF Len(ext) >= COMBINED_SAMPLE_CAP
                            THEN Take(ext, COMBINED_SAMPLE_CAP) ELSE ext)

\* the batch sizes a call is given: the default, and for a short range
\* 1..MaxBatch numbers, for a long one the sizes that cut it into 1..MaxBatch+1
\* batches
BatchSizes(lim) ==
    {DEFAULT_BATCH_SIZE} \cup
        (IF lim <= MaxLimit THEN 1..MaxBatch
         ELSE {lim \div d : d \in 1..(MaxBatch + 1)})

(***************************************************************************)
(* Values the variables of an operation hold while it is not in use.       *)
(***************************************************************************)
NoResults == [returned |-> FALSE]

SieveEntries == {"standard", "bit", "segmented", "PrimeValidator", "generate"}

SieveIdle ==
    /\ segment_size = DEFAULT_SEGMENT_SIZE
    /\ method = "auto"
    /\ sieve_ran = {}
    /\ sieve_out = [e \in SieveEntries |-> {}]

StoreIdle ==
    /\ st_hist = <<>>
    /\ st_last = -1
    /\ st_loaded = [called |-> FALSE, limit |-> -1, value |-> PyNone]

ScanIdle ==
    /\ pc = "idle"
    /\ classifier = "is_prime"
    /\ known_primes_arg = [none |-> TRUE, set |-> {}]
    /\ known_primes = {}
    /\ batch_size = 1
    /\ use_checkpoint = FALSE
    /\ runs = 0
    /\ ckpt_loaded = PyNone
    /\ found = "unused"
    /\ start = 2
    /\ batch_start = 2
    /\ n = 2
    /\ true_positives = 0
    /\ false_positives = 0
    /\ false_negatives = 0
    /\ false_positive_numbers = <<>>
    /\ false_negative_numbers = <<>>
    /\ results = NoResults

DistIdle ==
    /\ num_processes = 1
    /\ batches = <<>>
    /\ next_task = 1
    /\ worker = <<>>
    /\ batch_results = <<>>
    /\ times_processed = <<>>
    /\ pool_error = NoError

\* a call on the sequential path has no pool
NoPool ==
    /\ num_processes' = 1
    /\ batches' = <<>>
    /\ next_task' = 1
    /\ worker' = <<>>
    /\ batch_results' = <<>>
    /\ times_processed' = <<>>
    /\ pool_error' = NoError

\* a call on the distributed path does not reach the locals of the scan
NoScan ==
    /\ start' = 2
    /\ batch_start' = 2
    /\ n' = 2
    /\ true_positives' = 0
    /\ false_positives' = 0
    /\ false_negatives' = 0
    /\ false_positive_numbers' = <<>>
    /\ false_negative_numbers' = <<>>

\* no call has been made: nothing raised, nothing handed to the sink
NoCall ==
    /\ entry_point = "none"
    /\ distributed = FALSE
    /\ strategy = "none"
    /\ error = NoError
    /\ sink = <<>>
    /\ processes_arg = NoProcesses

CallIdle ==
    /\ raising = NeverRaises
    /\ NoCall

\* no call of load_known_primes_from_file has been made
LoadIdle ==
    /\ file_exists = FALSE
    /\ load_pc = "idle"
    /\ line = <<>>
    /\ lines_read = 0
    /\ loaded = {}

\* PrimeClassifier.__init__: self.prime_cache = {}
ClassifierNew ==
    /\ prime_cache = <<>>
    /\ is_prime_calls = 0
    /\ is_prime_last = [called |-> FALSE, n |-> 0, value |-> FALSE, cached |-> FALSE]

(***************************************************************************)
(* SieveSpec: the sieve entry points called on one limit.                  *)
(***************************************************************************)
SegmentSizes == (1..MaxSegment) \cup {DEFAULT_SEGMENT_SIZE}
Methods == {"standard", "bit", "segmented", "auto"}

SieveInit ==
    /\ limit \in 0..MaxSieveLimit
    /\ low_memory \in BOOLEAN
    /\ segment_size \in SegmentSizes
    /\ method = "auto"
    /\ sieve_ran = {}
    /\ sieve_out = [e \in SieveEntries |-> {}]
    /\ fs = <<>>
    /\ StoreIdle /\ ScanIdle /\ DistIdle /\ CallIdle /\ ClassifierNew
    /\ LoadIdle

SieveReturn(entry, value) ==
    /\ entry \notin sieve_ran
    /\ sieve_ran' = sieve_ran \cup {entry}
    /\ sieve_out' = [sieve_out EXCEPT ![entry] = value]
    /\ UNCHANGED <<classifierVars, importVars, limit, low_memory, segment_size, fs, storeVars, scanVars, distVars,
                   raising, entry_point, distributed, error, sink, processes_arg>>

RunStandard ==
    /\ SieveReturn("standard", generate_known_primes_standard(limit))
    /\ UNCHANGED <<method, strategy>>

RunBitSieve ==
    /\ SieveReturn("bit", generate_known_primes_bit_sieve(limit))
    /\ UNCHANGED <<method, strategy>>

RunSegmented ==
    /\ SieveReturn("segmented", generate_known_primes_segmented(limit, segment_size))
    /\ UNCHANGED <<method, strategy>>

RunPrimeValidator ==
    /\ SieveReturn("PrimeValidator", PrimeValidator_generate_known_primes(limit))
    /\ UNCHANGED <<method, strategy>>

RunGenerate ==
    \E m \in Methods :
        /\ SieveReturn("generate", generate_known_primes(limit, m, low_memory))
        /\ method' = m
        /\ strategy' = SelectStrategy(limit, m, low_memory)

SieveNext ==
    \/ RunStandard
    \/ RunBitSieve
    \/ RunSegmented
    \/ RunPrimeValidator
    \/ RunGenerate

SieveSpec == SieveInit /\ [][SieveNext]_vars

\* the trial-division oracle: no divisor d with 2 <= d and d*d <= k
TrialDivisionPrime(k) == k >= 2 /\ \A d \in 2..k : d * d <= k => k % d # 0
PrimesUpTo(lim) == {k \in 2..lim : TrialDivisionPrime(k)}

\* C1: for every limit, 0 and 1 included, the standard, bit-packed and
\* segmented sieves return the same set of integers.
C1_StrategiesAgree ==
    {"standard", "bit", "segmented"} \subseteq sieve_ran =>
        /\ sieve_out["standard"] = sieve_out["bit"]
        /\ sieve_out["standard"] = sieve_out["segmented"]

\* C2: for every limit >= 2 the standard sieve (EnhancedPrimeValidator's and
\* PrimeValidator's) returns exactly the n in [2, limit] that pass the
\* trial-division oracle, and nothing outside [2, limit].
C2_StandardSieveIsOracle ==
    limit >= 2 =>
        /\ "standard" \in sieve_ran =>
              /\ sieve_out["standard"] = PrimesUpTo(limit)
              /\ sieve_out["standard"] \subseteq 2..limit
        /\ "PrimeValidator" \in sieve_ran =>
              /\ sieve_out["PrimeValidator"] = PrimesUpTo(limit)
              /\ sieve_out["PrimeValidator"] \subseteq 2..limit

\* a limit whose sieve must strike out the square of its largest base prime
C2_Witness ==
    /\ limit = 25
    /\ {"standard", "PrimeValidator"} \subseteq sieve_ran
    /\ 25 \notin sieve_out["standard"]
    /\ 23 \in sieve_out["PrimeValidator"]

\* C3: for limit < 2 every sieve strategy, and generate_known_primes under
\* every method with low_memory on or off, returns the empty set.
C3_EmptyBelowTwo ==
    limit < 2 => \A e \in sieve_ran : sieve_out[e] = {}

\* C14: for every limit >= 2 and every segment_size >= 1 the segmented sieve
\* returns exactly the primes <= limit, whatever the window size; limit = 30
\* with window size 7 gives {2,3,5,7,11,13,17,19,23,29}.
C14_SegmentedIsExact ==
    (limit >= 2 /\ "segmented" \in sieve_ran) =>
        /\ segment_size >= 1
        /\ sieve_out["segmented"] = PrimesUpTo(limit)
        /\ (limit = 30 /\ segment_size = 7) =>
               sieve_out["segmented"] = {2, 3, 5, 7, 11, 13, 17, 19, 23, 29}

\* limit 30 swept in windows of 7: [6,12], [13,19], [20,26], [27,30]
C14_Witness ==
    /\ limit = 30
    /\ segment_size = 7
    /\ "segmented" \in sieve_ran
    /\ sieve_out["segmented"] = {2, 3, 5, 7, 11, 13, 17, 19, 23, 29}

(***************************************************************************)
(* StoreSpec: save_checkpoint and load_checkpoint called directly, in any   *)
(* order, on the limits of a comprehensive validation (powers of ten).     *)
(***************************************************************************)
RECURSIVE Pow10(_)
Pow10(e) == IF e = 0 THEN 1 ELSE 10 * Pow10(e - 1)

StoreLimits == {Pow10(e) : e \in 0..MaxStoreDigits}

StoreRecord(a, t) ==
    [last_processed |-> a, true_positives |-> a + 1, false_positives |-> a + 2,
     false_negatives |-> a + 3, timestamp |-> t]

StoreRecords == {StoreRecord(a, t) : a \in 0..MaxStoreVal, t \in 0..MaxStoreVal}

StoreInit ==
    /\ limit = 0
    /\ low_memory = FALSE
    /\ fs = <<>>
    /\ StoreIdle /\ SieveIdle /\ ScanIdle /\ DistIdle /\ CallIdle /\ ClassifierNew
    /\ LoadIdle

SaveCheckpoint ==
    \E lim \in StoreLimits, checkpoint_data \in StoreRecords :
        /\ fs' = save_checkpoint(fs, checkpoint_data, lim)
        /\ st_hist' = (lim :> checkpoint_data) @@ st_hist
        /\ st_last' = lim
        /\ st_loaded' = [called |-> FALSE, limit |-> -1, value |-> PyNone]
        /\ UNCHANGED <<classifierVars, importVars, limit, low_memory, sieveVars, scanVars, distVars, callVars>>

LoadCheckpoint ==
    \E lim \in StoreLimits :
        /\ st_loaded' = [called |-> TRUE, limit |-> lim, value |-> load_checkpoint(fs, lim)]
        /\ UNCHANGED <<classifierVars, importVars, limit, low_memory, fs, st_hist, st_last, sieveVars, scanVars,
                       distVars, callVars>>

StoreNext ==
    \/ SaveCheckpoint
    \/ LoadCheckpoint

StoreSpec == StoreInit /\ [][StoreNext]_vars

\* C6: load_checkpoint(limit) called after save_checkpoint(C, limit) returns a
\* record equal to C in every field (last_processed, the three counters and
\* the timestamp).
C6_CheckpointRoundTrip ==
    (st_loaded.called /\ st_loaded.limit = st_last) =>
        /\ ~st_loaded.value.none
        /\ DOMAIN st_loaded.value.data = DOMAIN st_hist[st_last]
        /\ \A k \in DOMAIN st_hist[st_last] :
               st_loaded.value.data[k] = st_hist[st_last][k]

\* a load that follows an overwriting save of the same limit
C6_Witness ==
    /\ st_loaded.called
    /\ st_loaded.limit = st_last
    /\ st_last = 10
    /\ st_loaded.value = PyDict(StoreRecord(1, 0))
    /\ Cardinality(DOMAIN fs) = 2

\* C9: one record per limit: a save for one limit leaves what load_checkpoint
\* returns for every other limit unchanged, and after any sequence of saves
\* load_checkpoint returns exactly the record saved last for that limit.
C9_OneRecordPerLimit ==
    \A lim \in StoreLimits :
        load_checkpoint(fs, lim) =
            IF lim \in DOMAIN st_hist THEN PyDict(st_hist[lim]) ELSE PyNone

\* two limits that end in the same digit hold different records, and a third
\* limit has none
C9_Witness ==
    /\ {10, 100} \subseteq DOMAIN st_hist
    /\ 1 \notin DOMAIN st_hist
    /\ st_hist[10] # st_hist[100]
    /\ st_last = 100
    /\ load_checkpoint(fs, 10) = PyDict(st_hist[10])
    /\ load_checkpoint(fs, 1) = PyNone

(***************************************************************************)
(* Spec: validate_primality_test on its sequential path, run (and run       *)
(* again after it ended or was stopped) on one limit, classifier and        *)
(* known_primes argument, against one output directory.                     *)
(***************************************************************************)
NoneArg == [none |-> TRUE, set |-> {}]
SetArg(S) == [none |-> FALSE, set |-> S]

\* the known_primes arguments: None, or a supplied set
KnownPrimesArgs(lim) == {NoneArg, SetArg({}), SetArg(0..lim)}

\* the state before the first call
ScanStart ==
    /\ fs = <<>>
    /\ pc = "idle"
    /\ known_primes = {}
    /\ batch_size = 1
    /\ use_checkpoint = FALSE
    /\ runs = 0
    /\ ckpt_loaded = PyNone
    /\ found = "unused"
    /\ start = 2
    /\ batch_start = 2
    /\ n = 2
    /\ true_positives = 0
    /\ false_positives = 0
    /\ false_negatives = 0
    /\ false_positive_numbers = <<>>
    /\ false_negative_numbers = <<>>
    /\ results = NoResults
    /\ SieveIdle /\ StoreIdle /\ DistIdle /\ NoCall /\ ClassifierNew /\ LoadIdle

SmallInputs ==
    /\ limit \in 0..MaxLimit
    /\ classifier \in Classifiers
    /\ raising = NeverRaises
    /\ known_primes_arg \in KnownPrimesArgs(limit)
    /\ low_memory \in (IF known_primes_arg.none THEN BOOLEAN ELSE {FALSE})

\* limit = 100 with the classifier 'odd and > 1' against the generated primes
ScenarioInputs ==
    /\ limit = ScenarioLimit
    /\ classifier = "odd_gt1"
    /\ raising = NeverRaises
    /\ known_primes_arg = NoneArg
    /\ low_memory = FALSE

Init == SmallInputs /\ ScanStart

NotRunning == pc \in {"idle", "stopped", "done", "failed"}

\* a resume that scans from 2 again
StartAfter_fromtwo(checkpoint_data) == 2

\* a resume that starts at last_processed itself
StartAfter_nooffset(checkpoint_data) == checkpoint_data["last_processed"]

\* start = checkpoint_data["last_processed"] + 1
StartAfter(checkpoint_data) == checkpoint_data["last_processed"] + 1

\* the call, up to the first batch: known_primes, the checkpoint, the locals.
\* A sieve that raises ends the call before the checkpoint is looked at;
\* reading a counter the loaded dict lacks raises KeyError out of the call.
StartRun ==
    \E bs \in 1..MaxBatch, uc \in BOOLEAN :
        LET sieveError == known_primes_arg.none /\ SieveRaises(limit)
            loads == ~sieveError /\ LoadsCheckpoint(FALSE, uc)
            ck  == IF loads THEN load_checkpoint(fs, limit) ELSE PyNone
            hit == loads /\ ~ck.none
            d   == ck.data
            has(k) == k \in DOMAIN d
            missing == {i \in 1..3 : ~has(CounterKeys[i])}
            keyError == hit /\ missing # {}
            start1 == IF hit THEN StartAfter(d) ELSE 2
        IN  /\ NotRunning
            /\ runs < MaxRuns
            /\ runs' = runs + 1
            /\ entry_point' = "validate_primality_test"
            /\ distributed' = FALSE
            /\ batch_size' = bs
            /\ use_checkpoint' = uc
            /\ strategy' = IF known_primes_arg.none
                           THEN SelectStrategy(limit, RunMethod(low_memory), low_memory)
                           ELSE "supplied"
            /\ known_primes' = IF sieveError THEN {}
                               ELSE GetKnownPrimes(known_primes_arg, limit, low_memory)
            /\ ckpt_loaded' = ck
            /\ found' = IF loads THEN FileState(fs, limit) ELSE "unused"
            /\ start' = start1
            /\ true_positives' =
                   IF hit /\ has("true_positives") THEN d["true_positives"] ELSE 0
            /\ false_positives' =
                   IF hit /\ has("true_positives") /\ has("false_positives")
                   THEN d["false_positives"] ELSE 0
            /\ false_negatives' =
                   IF hit /\ ~keyError THEN d["false_negatives"] ELSE 0
            /\ false_positive_numbers' = <<>>
            /\ false_negative_numbers' = <<>>
            /\ batch_start' = start1
            /\ n' = start1
            /\ results' = NoResults
            /\ sink' = <<>>
            /\ error' = IF sieveError THEN Raise("ValueError", <<>>)
                        ELSE IF keyError
                        THEN Raise("KeyError",
                                   <<CounterKeys[CHOOSE i \in missing :
                                                     \A j \in missing : i <= j]>>)
                        ELSE NoError
            /\ pc' = IF sieveError \/ keyError THEN "failed"
                     ELSE IF start1 > limit THEN "finish" ELSE "scan"
            /\ NoPool
            /\ UNCHANGED <<classifierVars, importVars, limit, low_memory, fs, classifier, known_primes_arg,
                           raising, processes_arg, sieveVars, storeVars>>

\* a batch end that is not cut at the limit
BatchEnd_unclipped == batch_start + batch_size - 1

\* batch_end = min(batch_start + batch_size - 1, limit)
BatchEnd == Min(batch_start + batch_size - 1, limit)

\* one pass of the loop over n; an exception of is_prime leaves the call
ScanNumber ==
    /\ pc = "scan"
    /\ n <= BatchEnd
    /\ IF ~(n > 2 /\ n % 2 = 0) /\ ClassifierRaises(raising, n)
       THEN /\ pc' = "failed"
            /\ error' = ClassifierException(raising, n)
            /\ UNCHANGED <<n, true_positives, false_positives, false_negatives,
                           false_positive_numbers, false_negative_numbers>>
       ELSE /\ LET st == ScanStep(Counters(true_positives, false_positives,
                                           false_negatives, false_positive_numbers,
                                           false_negative_numbers),
                                  n, classifier, known_primes)
               IN  /\ true_positives' = st.true_positives
                   /\ false_positives' = st.false_positives
                   /\ false_negatives' = st.false_negatives
                   /\ false_positive_numbers' = st.false_positive_numbers
                   /\ false_negative_numbers' = st.false_negative_numbers
            /\ n' = n + 1
            /\ UNCHANGED <<pc, error>>
    /\ UNCHANGED <<classifierVars, importVars, limit, low_memory, fs, classifier, known_primes_arg, known_primes,
                   batch_size, use_checkpoint, runs, ckpt_loaded, found, start,
                   batch_start, results, raising, entry_point, distributed, strategy, sink,
                   processes_arg, sieveVars, storeVars, distVars>>

\* a checkpoint whose last_processed is the start of the batch
CheckpointData_batchstart(now) ==
    [last_processed |-> batch_start, true_positives |-> true_positives,
     false_positives |-> false_positives, false_negatives |-> false_negatives,
     timestamp |-> now]

\* self.checkpoint_data as the end of a batch sets it
CheckpointData(now) ==
    [last_processed |-> BatchEnd, true_positives |-> true_positives,
     false_positives |-> false_positives, false_negatives |-> false_negatives,
     timestamp |-> now]

\* the end of a batch: the checkpoint, then the next batch or the end of the loop
EndBatch ==
    /\ pc = "scan"
    /\ n > BatchEnd
    /\ fs' = IF use_checkpoint THEN save_checkpoint(fs, CheckpointData(runs), limit)
             ELSE fs
    /\ batch_start' = batch_start + batch_size
    /\ n' = batch_start + batch_size
    /\ pc' = IF batch_start + batch_size > limit THEN "finish" ELSE "scan"
    /\ UNCHANGED <<classifierVars, importVars, limit, low_memory, classifier, known_primes_arg, known_primes,
                   batch_size, use_checkpoint, runs, ckpt_loaded, found, start,
                   true_positives, false_positives, false_negatives,
                   false_positive_numbers, false_negative_numbers, results,
                   sieveVars, storeVars, distVars, callVars>>

\* the result sink: save_validation_results(results), then
\* visualize_validation_results(results)
SinkCalls(r) ==
    <<[call |-> "save_validation_results", limit |-> r.limit],
      [call |-> "visualize_validation_results", limit |-> r.limit]>>

\* after the loop: the metrics, the results dict, the sink, the return
Finish ==
    /\ pc = "finish"
    /\ LET r == CompileResults(limit, known_primes, true_positives, false_positives,
                               false_negatives, false_positive_numbers,
                               false_negative_numbers)
       IN  IF MetricsRaise(r)
           THEN /\ error' = Raise("ZeroDivisionError", <<>>)
                /\ pc' = "failed"
                /\ UNCHANGED <<results, sink>>
           ELSE /\ results' = r
                /\ sink' = sink \o SinkCalls(r)
                /\ pc' = "done"
                /\ UNCHANGED error
    /\ UNCHANGED <<classifierVars, importVars, limit, low_memory, fs, classifier, known_primes_arg, known_primes,
                   batch_size, use_checkpoint, runs, ckpt_loaded, found, start,
                   batch_start, n, true_positives, false_positives, false_negatives,
                   false_positive_numbers, false_negative_numbers,
                   raising, entry_point, distributed, strategy, processes_arg,
                   sieveVars, storeVars, distVars>>

\* the process is stopped: its locals are lost, the output directory stays
Stop ==
    /\ pc \in {"scan", "finish"}
    /\ pc' = "stopped"
    /\ start' = 2
    /\ batch_start' = 2
    /\ n' = 2
    /\ true_positives' = 0
    /\ false_positives' = 0
    /\ false_negatives' = 0
    /\ false_positive_numbers' = <<>>
    /\ false_negative_numbers' = <<>>
    /\ batch_size' = 1
    /\ use_checkpoint' = FALSE
    /\ ckpt_loaded' = PyNone
    /\ found' = "unused"
    /\ UNCHANGED <<classifierVars, importVars, limit, low_memory, fs, classifier, known_primes_arg, known_primes,
                   runs, results, sieveVars, storeVars, distVars, callVars>>

\* what a damaged checkpoint file can hold: undecodable bytes, a pickled value
\* that is no dict, or a dict that lacks one of the four keys the run reads
MalformedContents(files, lim) ==
    LET base == InitialCheckpointData(0)
    IN  {GarbageFile, NonRecordFile}
        \cup {Pickle([k \in DOMAIN base \ {CheckpointKeys[i]} |-> base[k]]) : i \in 1..4}

\* between two runs the checkpoint file of the limit is damaged
CorruptCheckpoint ==
    /\ NotRunning
    /\ runs < MaxRuns
    /\ FileState(fs, limit) # "malformed"
    /\ \E content \in MalformedContents(fs, limit) :
           fs' = (CheckpointFile(limit) :> content) @@ fs
    /\ UNCHANGED <<classifierVars, importVars, limit, low_memory, sieveVars, storeVars, scanVars, distVars, callVars>>

Next ==
    \/ StartRun
    \/ ScanNumber
    \/ EndBatch
    \/ Finish
    \/ Stop
    \/ CorruptCheckpoint

Spec == Init /\ [][Next]_vars

(***************************************************************************)
(* RunSpec: calls of validate_primality_test that run to their end, on the  *)
(* small inputs and on the limit = 100 scenario.                            *)
(***************************************************************************)
RunInit == (SmallInputs \/ ScenarioInputs) /\ ScanStart

RunNext ==
    \/ StartRun
    \/ ScanNumber
    \/ EndBatch
    \/ Finish

RunSpec == RunInit /\ [][RunNext]_vars

(***************************************************************************)
(* Claims about the sequential scan.                                       *)
(***************************************************************************)
Range(seq) == {seq[i] : i \in DOMAIN seq}

\* the numbers a scan of [2, lim] classifies: 2 and every odd number from 3 on
Scanned(lim) == {k \in 2..lim : k = 2 \/ k % 2 = 1}

\* C4: a checkpointed scan of [2, k] followed by a resumed scan of
\* [k+1, limit], for any batch sizes and any checkpoint cursor k with
\* 2 <= k < limit, ends with the true_positives, false_positives and
\* false_negatives of one uninterrupted scan of [2, limit].
C4_ResumeIdempotence ==
    (pc = "done" /\ found = "valid" /\ start - 1 \in 2..(limit - 1)) =>
        LET u == UninterruptedScan(limit, classifier, known_primes)
        IN  /\ ckpt_loaded.data["last_processed"] = start - 1
            /\ results.true_positives = u.true_positives
            /\ results.false_positives = u.false_positives
            /\ results.false_negatives = u.false_negatives

\* limit 9, 'odd and > 1': the false negative 2 and the true positives 3 and 5
\* come from the checkpoint at 5, the true positive 7 and the false positive 9
\* from the resumed scan
C4_Witness ==
    /\ pc = "done"
    /\ found = "valid"
    /\ limit = 9
    /\ start = 6
    /\ classifier = "odd_gt1"
    /\ known_primes_arg = NoneArg
    /\ ckpt_loaded.data["true_positives"] = 2
    /\ ckpt_loaded.data["false_negatives"] = 1
    /\ results.true_positives = 3
    /\ results.false_positives = 1
    /\ results.false_negatives = 1

\* C10: a run that finds an unreadable or malformed checkpoint record
\* (undecodable file, non-record value, or a record missing last_processed,
\* true_positives, false_positives or false_negatives) does not fail, starts
\* at n = 2 and ends with the counters of a run that found no checkpoint.
C10_MalformedIsAbsent ==
    found = "malformed" =>
        /\ pc # "failed"
        /\ start = 2
        /\ ckpt_loaded = PyNone
        /\ pc = "done" =>
               LET u == UninterruptedScan(limit, classifier, known_primes)
               IN  /\ results.true_positives = u.true_positives
                   /\ results.false_positives = u.false_positives
                   /\ results.false_negatives = u.false_negatives

\* C7: in a scan that was not resumed the counters are the numbers of scanned
\* n (2 and the odd n from 3 on) classified so far with classifier and ground
\* truth both true, classifier only, and ground truth only; at the end they
\* count over all scanned n of [2, limit].  With the classifier 'odd and > 1'
\* against the generated primes the false negatives are {2}, the false
\* positives the odd composites and the true positives the odd primes.
C7_CountersAreCounts ==
    (pc \in {"scan", "finish", "done"} /\ found # "valid") =>
        LET seen == {k \in Scanned(limit) : k < n}
            TP == {k \in seen : Classify(classifier, k) /\ k \in known_primes}
            FP == {k \in seen : Classify(classifier, k) /\ k \notin known_primes}
            FN == {k \in seen : ~Classify(classifier, k) /\ k \in known_primes}
        IN  /\ true_positives = Cardinality(TP)
            /\ false_positives = Cardinality(FP)
            /\ false_negatives = Cardinality(FN)
            /\ pc = "done" =>
                  /\ seen = Scanned(limit)
                  /\ results.true_positives = Cardinality(TP)
                  /\ results.false_positives = Cardinality(FP)
                  /\ results.false_negatives = Cardinality(FN)
                  /\ (classifier = "odd_gt1" /\ known_primes_arg = NoneArg /\ limit >= 2) =>
                        /\ Range(results.false_negative_numbers) = {2}
                        /\ Range(results.false_positive_numbers) =
                               {k \in 3..limit : k % 2 = 1 /\ ~TrialDivisionPrime(k)}
                        /\ TP = {k \in 3..limit : k % 2 = 1 /\ TrialDivisionPrime(k)}

\* the limit = 100 scenario, scanned to its end: 24 odd primes, 25 odd
\* composites, and 2
C7_Witness ==
    /\ limit = 100
    /\ classifier = "odd_gt1"
    /\ pc = "done"
    /\ found # "valid"
    /\ results.true_positives = 24
    /\ results.false_positives = 25
    /\ results.false_negatives = 1
    /\ results.false_negative_numbers = <<2>>
    /\ results.false_positive_numbers[1] = 9

(***************************************************************************)
(* DistSpec: validate_primality_test_distributed.  The pool hands the      *)
(* batches out in list order to idle workers; the workers finish in any    *)
(* order; starmap returns the results in list order.                       *)
(***************************************************************************)
DistInit == SmallInputs /\ ScanStart

\* the pool as mp.Pool(processes=np) and the batch list set it up
PoolStart(bs, np) ==
    /\ batch_size' = bs
    /\ num_processes' = np
    /\ batches' = BatchList(2, limit, bs)
    /\ next_task' = 1
    /\ worker' = [w \in 1..np |-> 0]
    /\ batch_results' = <<>>
    /\ times_processed' = [i \in DOMAIN BatchList(2, limit, bs) |-> 0]
    /\ pool_error' = NoError

\* validate_primality_test_distributed called directly, up to the creation of
\* the pool
StartDistributed ==
    \E bs \in BatchSizes(limit), np \in 1..MaxWorkers :
        /\ pc = "idle"
        /\ ~(known_primes_arg.none /\ SieveRaises(limit))
        /\ PoolStart(bs, np)
        /\ known_primes' = GetKnownPrimes(known_primes_arg, limit, low_memory)
        /\ entry_point' = "validate_primality_test_distributed"
        /\ pc' = "pool"
        /\ UNCHANGED <<classifierVars, importVars, limit, low_memory, fs, classifier, known_primes_arg,
                       use_checkpoint, runs, ckpt_loaded, found, start, batch_start, n,
                       true_positives, false_positives, false_negatives,
                       false_positive_numbers, false_negative_numbers, results,
                       raising, distributed, strategy, error, sink, processes_arg,
                       sieveVars, storeVars>>

\* validate_primality_test called with distributed=True, up to the creation
\* of the pool: known_primes, then validate_primality_test_distributed(limit,
\* known_primes, batch_size), whose num_processes is None and becomes
\* mp.cpu_count()
StartRunDistributed ==
    \E bs \in 1..MaxBatch, uc \in BOOLEAN, cpu_count \in 1..MaxWorkers :
        LET sieveError == known_primes_arg.none /\ SieveRaises(limit)
            loads == ~sieveError /\ LoadsCheckpoint(TRUE, uc)
        IN  /\ NotRunning
            /\ runs < MaxRuns
            /\ runs' = runs + 1
            /\ entry_point' = "validate_primality_test"
            /\ distributed' = TRUE
            /\ use_checkpoint' = uc
            /\ strategy' = IF known_primes_arg.none
                           THEN SelectStrategy(limit, RunMethod(low_memory), low_memory)
                           ELSE "supplied"
            /\ known_primes' = IF sieveError THEN {}
                               ELSE GetKnownPrimes(known_primes_arg, limit, low_memory)
            /\ ckpt_loaded' = IF loads THEN load_checkpoint(fs, limit) ELSE PyNone
            /\ found' = IF loads THEN FileState(fs, limit) ELSE "unused"
            /\ PoolStart(bs, cpu_count)
            /\ results' = NoResults
            /\ sink' = <<>>
            /\ error' = IF sieveError THEN Raise("ValueError", <<>>) ELSE NoError
            /\ pc' = IF sieveError THEN "failed" ELSE "pool"
            /\ NoScan
            /\ UNCHANGED <<classifierVars, importVars, limit, low_memory, fs, classifier, known_primes_arg,
                           raising, processes_arg, sieveVars, storeVars>>

\* an idle worker is handed the next batch of the list
WorkerTake ==
    \E w \in DOMAIN worker :
        /\ pc = "pool"
        /\ worker[w] = 0
        /\ next_task <= Len(batches)
        /\ worker' = [worker EXCEPT ![w] = next_task]
        /\ next_task' = next_task + 1
        /\ UNCHANGED <<classifierVars, importVars, limit, low_memory, fs, num_processes, batches, batch_results,
                       times_processed, pool_error, sieveVars, storeVars, scanVars,
                       callVars>>

\* the numbers of a batch on which the loop of validate_primality_test_batch
\* calls is_prime and is_prime raises
BatchRaisesAt(bstart, bend, R) ==
    {k \in bstart..bend : ~(k > 2 /\ k % 2 = 0) /\ ClassifierRaises(R, k)}

\* a worker is done with its batch: it sends back the result of
\* validate_primality_test_batch, or the exception that ended it; the pool
\* keeps the first exception only
WorkerFinish ==
    \E w \in DOMAIN worker :
        /\ pc = "pool"
        /\ worker[w] # 0
        /\ LET i == worker[w]
               F == BatchRaisesAt(batches[i][1], batches[i][2], raising)
           IN  /\ IF F = {}
                  THEN /\ batch_results' =
                              (i :> validate_primality_test_batch(
                                        batches[i][1], batches[i][2],
                                        classifier, known_primes))
                              @@ batch_results
                       /\ UNCHANGED pool_error
                  ELSE /\ pool_error' =
                              IF pool_error.raised THEN pool_error
                              ELSE ClassifierException(
                                       raising, CHOOSE k \in F : \A j \in F : k <= j)
                       /\ UNCHANGED batch_results
               /\ times_processed' = [times_processed EXCEPT ![i] = @ + 1]
        /\ worker' = [worker EXCEPT ![w] = 0]
        /\ UNCHANGED <<classifierVars, importVars, limit, low_memory, fs, num_processes, batches, next_task,
                       sieveVars, storeVars, scanVars, callVars>>

\* the values of a function on indices, in index order
RECURSIVE ValuesInOrder(_, _, _)
ValuesInOrder(f, i, last) ==
    IF i > last THEN <<>>
    ELSE (IF i \in DOMAIN f THEN <<f[i]>> ELSE <<>>) \o ValuesInOrder(f, i + 1, last)

\* a starmap that returns the results of the batches that succeeded
starmap_dropfailed(bs, outcomes, failure) ==
    [raised |-> FALSE, exc |-> NoError, value |-> ValuesInOrder(outcomes, 1, Len(bs))]

\* pool.starmap once every batch is done: the list of results in batch order,
\* or the first exception, raised in the caller
starmap(bs, outcomes, failure) ==
    IF failure.raised
    THEN [raised |-> TRUE, exc |-> failure, value |-> <<>>]
    ELSE [raised |-> FALSE, exc |-> NoError,
          value |-> ValuesInOrder(outcomes, 1, Len(bs))]

\* starmap has returned or raised: the results are combined and returned
\* (by validate_primality_test too, which returns them as they are)
Combine ==
    /\ pc = "pool"
    /\ next_task > Len(batches)
    /\ \A w \in DOMAIN worker : worker[w] = 0
    /\ LET out == starmap(batches, batch_results, pool_error)
           rs == out.value
           r == CompileResults(limit, known_primes,
                               SumField(rs, "true_positives"),
                               SumField(rs, "false_positives"),
                               SumField(rs, "false_negatives"),
                               CombineNumbers(rs, "false_positive_numbers", <<>>),
                               CombineNumbers(rs, "false_negative_numbers", <<>>))
       IN  IF out.raised
           THEN /\ error' = out.exc
                /\ pc' = "failed"
                /\ UNCHANGED results
           ELSE IF MetricsRaise(r)
           THEN /\ error' = Raise("ZeroDivisionError", <<>>)
                /\ pc' = "failed"
                /\ UNCHANGED results
           ELSE /\ results' = r
                /\ pc' = "done"
                /\ UNCHANGED error
    /\ UNCHANGED <<classifierVars, importVars, limit, low_memory, fs, classifier, known_primes_arg, known_primes,
                   batch_size, use_checkpoint, runs, ckpt_loaded, found, start,
                   batch_start, n, true_positives, false_positives, false_negatives,
                   false_positive_numbers, false_negative_numbers,
                   raising, entry_point, distributed, strategy, sink, processes_arg,
                   sieveVars, storeVars, distVars>>

DistNext ==
    \/ StartDistributed
    \/ WorkerTake
    \/ WorkerFinish
    \/ Combine

DistSpec == DistInit /\ [][DistNext]_vars

\* C5: for any limit, batch_size >= 1 and number of workers, the
\* true_positives, false_positives and false_negatives returned by
\* validate_primality_test_distributed equal those of the sequential scan of
\* validate_primality_test over the same [2, limit], classifier and ground truth.
C5_DistributedEqualsSequential ==
    pc = "done" =>
        LET u == UninterruptedScan(limit, classifier, known_primes)
        IN  /\ results.true_positives = u.true_positives
            /\ results.false_positives = u.false_positives
            /\ results.false_negatives = u.false_negatives

\* limit 9 in batches of 3 on two workers that both processed a batch
C5_Witness ==
    /\ pc = "done"
    /\ limit = 9
    /\ batch_size = 3
    /\ num_processes = 2
    /\ classifier = "odd_gt1"
    /\ known_primes_arg = NoneArg
    /\ times_processed = <<1, 1, 1>>
    /\ results.true_positives = 3
    /\ results.false_positives = 1
    /\ results.false_negatives = 1

\* C8: for limit >= 2 the batches are contiguous from 2 to limit and pairwise
\* disjoint, each of batch_size numbers except that the last may be shorter
\* and ends at limit, every n of [2, limit] lies in exactly one batch, and
\* each batch is processed by one worker, once.
C8_BatchesPartitionRange ==
    (pc \in {"pool", "done"} /\ limit >= 2) =>
        LET B == Len(batches)
            Size(i) == batches[i][2] - batches[i][1] + 1
        IN  /\ B >= 1
            /\ batches[1][1] = 2
            /\ batches[B][2] = limit
            /\ \A i \in 1..B : Size(i) >= 1 /\ Size(i) <= batch_size
            /\ \A i \in 1..(B - 1) :
                   Size(i) = batch_size /\ batches[i + 1][1] = batches[i][2] + 1
            /\ \A k \in 2..limit :
                   Cardinality({i \in 1..B : batches[i][1] <= k /\ k <= batches[i][2]}) = 1
            /\ \A i \in 1..B :
                   /\ times_processed[i] <= 1
                   /\ i \in DOMAIN batch_results <=> times_processed[i] = 1
                   /\ Cardinality({w \in DOMAIN worker : worker[w] = i}) <= 1
                   /\ (\E w \in DOMAIN worker : worker[w] = i) => times_processed[i] = 0
                   /\ pc = "done" => times_processed[i] = 1

\* limit 9 in batches of 3: the last batch is the short one; the first batch
\* is done and the two workers hold the other two
C8_Witness ==
    /\ pc = "pool"
    /\ limit = 9
    /\ batch_size = 3
    /\ batches = <<<<2, 4>>, <<5, 7>>, <<8, 9>>>>
    /\ worker = <<3, 2>>
    /\ times_processed = <<1, 0, 0>>
    /\ DOMAIN batch_results = {1}

(***************************************************************************)
(* ErrSpec: validate_primality_test on its sequential path with a          *)
(* classifier that raises on one number of the range.                      *)
(***************************************************************************)
\* the classifiers that raise on one number, with or without naming it
RaisingClassifiers(lim) ==
    {[at |-> {k}, names_n |-> b] : k \in 2..lim, b \in BOOLEAN}

ErrInit ==
    /\ limit \in 2..MaxLimit
    /\ classifier \in {"is_prime", "odd_gt1"}
    /\ raising \in RaisingClassifiers(limit)
    /\ known_primes_arg = NoneArg
    /\ low_memory = FALSE
    /\ ScanStart

ErrNext ==
    \/ StartRun
    \/ ScanNumber
    \/ EndBatch
    \/ Finish

ErrSpec == ErrInit /\ [][ErrNext]_vars

\* the counters a run holds when it enters the batch that starts at b: those
\* it started from, advanced over [start, b - 1]
CountersAtBatch(b) ==
    LET seed == IF ckpt_loaded.none THEN ZeroCounters
                ELSE Counters(ckpt_loaded.data["true_positives"],
                              ckpt_loaded.data["false_positives"],
                              ckpt_loaded.data["false_negatives"], <<>>, <<>>)
    IN  ScanRange(seed, start, b - 1, classifier, known_primes)

\* the stored checkpoint is the one the last completed batch of the run
\* wrote, or the one the run found when it completed no batch
CheckpointOfLastBatch ==
    LET stored == load_checkpoint(fs, limit)
        at == CountersAtBatch(batch_start)
    IN  IF use_checkpoint /\ batch_start > start
        THEN /\ ~stored.none
             /\ stored.data["last_processed"] = batch_start - 1
             /\ stored.data["true_positives"] = at.true_positives
             /\ stored.data["false_positives"] = at.false_positives
             /\ stored.data["false_negatives"] = at.false_negatives
        ELSE use_checkpoint => stored = ckpt_loaded

\* C11: a sequential scan whose classifier raises for some n ends with that
\* error raised to the caller and naming n, returns no result, hands nothing
\* to the result sink, and leaves the stored checkpoint as the last completed
\* batch wrote it.
C11_ClassifierErrorSurfacedWithN ==
    (pc = "failed" /\ error.type = "ClassifierError") =>
        /\ error.raised
        /\ ClassifierRaises(raising, n)
        /\ error.args = <<n>>
        /\ results = NoResults
        /\ sink = <<>>
        /\ CheckpointOfLastBatch

(***************************************************************************)
(* DistErrSpec: validate_primality_test_distributed with a classifier that *)
(* raises on one number, or on two numbers of different batches.           *)
(***************************************************************************)
DistErrInit ==
    /\ limit \in 2..MaxLimit
    /\ classifier \in {"is_prime", "odd_gt1"}
    /\ raising \in RaisingClassifiers(limit)
                    \cup {[at |-> {2, 3}, names_n |-> TRUE] : k \in 3..limit}
    /\ known_primes_arg = NoneArg
    /\ low_memory = FALSE
    /\ ScanStart

DistErrSpec == DistErrInit /\ [][DistNext]_vars

\* the classifier raises on a number the scan of [2, limit] classifies
RaisesInRange == \E k \in Scanned(limit) : ClassifierRaises(raising, k)

\* C12: when the classifier raises in any batch of a distributed run,
\* validate_primality_test_distributed raises the failure to its caller and
\* returns no result; a result it returns carries the counters of the whole
\* range, never the sum over the batches that succeeded only.
C12_NoSilentPartialAggregate ==
    /\ pc = "done" =>
           LET u == UninterruptedScan(limit, classifier, known_primes)
           IN  /\ ~RaisesInRange
               /\ DOMAIN batch_results = DOMAIN batches
               /\ results.true_positives = u.true_positives
               /\ results.false_positives = u.false_positives
               /\ results.false_negatives = u.false_negatives
    /\ pc = "failed" =>
           /\ RaisesInRange
           /\ results = NoResults
           /\ error \in {ClassifierException(raising, k) : k \in raising.at}
    /\ (pc = "pool" /\ pool_error.raised) => results = NoResults

\* limit 9 in batches of 3, the classifier raising on 5: the first and the
\* third batch returned their results, the call raised
C12_Witness ==
    /\ pc = "failed"
    /\ limit = 9
    /\ batch_size = 3
    /\ raising.at = {5}
    /\ DOMAIN batch_results = {1, 3}
    /\ times_processed = <<1, 1, 1>>
    /\ error = ClassifierException(raising, 5)
    /\ results = NoResults

(***************************************************************************)
(* CallSpec: the entry points as a caller uses them, on any integer limit: *)
(* validate_primality_test on its sequential and its distributed path (one *)
(* call after another against the same output directory),                  *)
(* validate_primality_test_distributed and validate_primality_test_batch.   *)
(***************************************************************************)
\* the known_primes arguments of a caller: None, a set of its own, or the set
\* one of the sieves gave it
CallKnownPrimesArgs(lim) ==
    KnownPrimesArgs(lim)
    \cup (IF SieveRaises(lim) THEN {}
          ELSE {SetArg(generate_known_primes(lim, m, lm)) : m \in Methods, lm \in BOOLEAN})

CallInit ==
    /\ limit \in (-MaxNegLimit)..MaxCallLimit
    /\ classifier \in Classifiers
    /\ raising = NeverRaises
    /\ known_primes_arg \in CallKnownPrimesArgs(limit)
    /\ low_memory \in (IF known_primes_arg.none THEN BOOLEAN ELSE {FALSE})
    /\ ScanStart

\* validate_primality_test_batch(start, end, known_primes) called directly
CallBatch ==
    \E bstart \in 0..MaxCallLimit, bend \in 0..MaxCallLimit :
        /\ pc = "idle"
        /\ ~known_primes_arg.none
        /\ entry_point' = "validate_primality_test_batch"
        /\ batches' = <<<<bstart, bend>>>>
        /\ known_primes' = known_primes_arg.set
        /\ LET F == BatchRaisesAt(bstart, bend, raising)
           IN  IF F = {}
               THEN /\ results' = [returned |-> TRUE] @@
                                    validate_primality_test_batch(bstart, bend, classifier,
                                                                  known_primes_arg.set)
                    /\ pc' = "done"
                    /\ UNCHANGED error
               ELSE /\ error' = ClassifierException(
                                     raising, CHOOSE k \in F : \A j \in F : k <= j)
                    /\ pc' = "failed"
                    /\ UNCHANGED results
        /\ UNCHANGED <<classifierVars, importVars, limit, low_memory, fs, classifier, known_primes_arg, batch_size,
                       use_checkpoint, runs, ckpt_loaded, found, start, batch_start, n,
                       true_positives, false_positives, false_negatives,
                       false_positive_numbers, false_negative_numbers,
                       num_processes, next_task, worker, batch_results, times_processed,
                       pool_error, raising, distributed, strategy, sink, processes_arg,
                       sieveVars, storeVars>>

CallNext ==
    \/ StartRun
    \/ ScanNumber
    \/ EndBatch
    \/ Finish
    \/ StartRunDistributed
    \/ StartDistributed
    \/ WorkerTake
    \/ WorkerFinish
    \/ Combine
    \/ CallBatch

CallSpec == CallInit /\ [][CallNext]_vars

\* the call was given an invalid range: limit < 0, or end < start
InvalidRange ==
    \/ /\ entry_point \in {"validate_primality_test", "validate_primality_test_distributed"}
       /\ limit < 0
    \/ /\ entry_point = "validate_primality_test_batch"
       /\ batches[1][2] < batches[1][1]

\* C13: a call with an invalid range (validate_primality_test or
\* validate_primality_test_distributed with limit < 0, with or without a
\* supplied ground truth; validate_primality_test_batch with end < start) is
\* rejected with an error before any sieve or scan work: it never returns a
\* result.
C13_InvalidRangeRejected ==
    InvalidRange =>
        /\ pc # "done"
        /\ results = NoResults
        /\ pc \notin {"scan", "pool", "finish"}

\* the selection policy on (limit, low_memory)
Policy(lim, lowmem) ==
    IF lim <= AUTO_STANDARD_MAX /\ ~lowmem THEN "standard"
    ELSE IF lim <= AUTO_BIT_MAX THEN "bit"
    ELSE "segmented"

\* C15: every automatic ground-truth generation selects its sieve by the one
\* policy on (limit, low_memory): Standard when limit <= 10,000,000 and
\* low_memory is off, otherwise BitPacked when limit <= 100,000,000, otherwise
\* Segmented; both generate_known_primes(limit, 'auto') and the generation
\* inside validate_primality_test when known_primes is None.
C15_OneSelectionPolicy ==
    /\ ("generate" \in sieve_ran /\ method = "auto") =>
           strategy = Policy(limit, low_memory)
    /\ (entry_point = "validate_primality_test" /\ known_primes_arg.none) =>
           strategy = Policy(limit, low_memory)

\* C16: every run of validate_primality_test that completes (sequential,
\* checkpointed or distributed) hands its finished result to the result sink,
\* save_validation_results then visualize_validation_results, exactly once,
\* after the metrics are computed and before it returns; a run that has not
\* completed has handed nothing over.
C16_ResultHandedToSinkOnce ==
    entry_point = "validate_primality_test" =>
        /\ pc = "done" => (results.returned /\ sink = SinkCalls(results))
        /\ pc # "done" => sink = <<>>

\* the call in progress, or the last call made, is a distributed run of
\* validate_primality_test
DistributedRun == entry_point = "validate_primality_test" /\ distributed

\* C17: a distributed run of validate_primality_test never reads or writes the
\* checkpoint store, even with use_checkpoint set: it calls no load_checkpoint,
\* no step of it changes a file of the output directory, and a checkpoint
\* file that exists has no effect on its counters.
C17_DistributedIgnoresCheckpoints ==
    /\ [](DistributedRun =>
             /\ found = "unused"
             /\ ckpt_loaded = PyNone
             /\ pc = "done" =>
                    LET u == UninterruptedScan(limit, classifier, known_primes)
                    IN  /\ results.true_positives = u.true_positives
                        /\ results.false_positives = u.false_positives
                        /\ results.false_negatives = u.false_negatives)
    /\ [][DistributedRun' => fs' = fs]_vars

\* limit 4: a checkpointed sequential run left its checkpoint (2 and 3 true
\* positives), then a distributed run with use_checkpoint set returned
C17_Witness ==
    /\ DistributedRun
    /\ pc = "done"
    /\ use_checkpoint
    /\ runs = 2
    /\ limit = 4
    /\ classifier = "is_prime"
    /\ known_primes_arg = NoneArg
    /\ FileState(fs, limit) = "valid"
    /\ load_checkpoint(fs, limit).data["true_positives"] = 2
    /\ load_checkpoint(fs, limit).data["timestamp"] = 1
    /\ results.true_positives = 2

\* a validation (sequential or distributed) has returned its results dict
Validated ==
    /\ pc = "done"
    /\ entry_point \in {"validate_primality_test", "validate_primality_test_distributed"}

\* the ground truth of the call is the work of a sieve: known_primes is None,
\* or the set one of the strategies returns for the limit
GroundTruthFromStrategy ==
    \/ known_primes_arg.none
    \/ /\ ~SieveRaises(limit)
       /\ \E m \in Methods, lm \in BOOLEAN :
              known_primes_arg.set = generate_known_primes(limit, m, lm)

\* C20: a validation with limit = 1 returns, scans no number and yields zero
\* counters, total_known_primes = 0 and precision = recall = f1_score =
\* accuracy = 0, whichever sieve produced the ground truth; in every
\* validation a metric whose denominator is 0 is 0, and no division by zero
\* is raised.
C20_EmptyRangeAllZero ==
    /\ error.type # "ZeroDivisionError"
    /\ (limit = 1 /\ entry_point # "validate_primality_test_batch") => pc # "failed"
    /\ Validated =>
          /\ ~MetricsRaise(results)
          /\ results.true_positives + results.false_positives = 0
                 => results.precision = Number(0)
          /\ results.true_positives + results.false_negatives = 0
                 => results.recall = Number(0)
          /\ PyAdd(results.precision, results.recall).num = 0
                 => results.f1_score = Number(0)
          /\ results.total_known_primes = 0 => results.accuracy = Number(0)
          /\ (limit = 1 /\ GroundTruthFromStrategy) =>
                /\ results.true_positives = 0
                /\ results.false_positives = 0
                /\ results.false_negatives = 0
                /\ results.false_positive_numbers = <<>>
                /\ results.false_negative_numbers = <<>>
                /\ results.total_known_primes = 0
                /\ results.precision = Number(0)
                /\ results.recall = Number(0)
                /\ results.f1_score = Number(0)
                /\ results.accuracy = Number(0)

\* limit 1 with the set the bit-packed sieve returns for 1, which holds 2: the
\* validation returned all zeros
C20_Witness ==
    /\ Validated
    /\ limit = 1
    /\ known_primes_arg = SetArg(generate_known_primes(1, "bit", FALSE))
    /\ known_primes = {2}
    /\ results.total_known_primes = 0
    /\ results.accuracy = Number(0)
    /\ results.f1_score = Number(0)

(***************************************************************************)
(* CliSpec: main() run with --distributed (and neither --comprehensive nor *)
(* --oeis), on the validator main() constructs.                            *)
(***************************************************************************)
\* args.processes: None, or the number given with --processes
ProcessesArgs == {NoProcesses} \cup {[none |-> FALSE, value |-> p] : p \in 1..MaxWorkers}

CliInit ==
    /\ limit \in 0..MaxCallLimit
    /\ classifier = "is_prime"
    /\ raising = NeverRaises
    /\ known_primes_arg = NoneArg
    /\ low_memory \in BOOLEAN
    /\ ScanStart

\* main() with args.distributed set, up to the creation of the pool:
\* generate_known_primes(args.limit, method=sieve_method), then
\* validate_primality_test(args.limit, known_primes, args.checkpoint,
\* args.batch_size, distributed=True), which passes no num_processes on
MainDistributed ==
    \E processes \in ProcessesArgs, segmented_sieve \in BOOLEAN, checkpoint \in BOOLEAN,
       bs \in 1..MaxBatch, cpu_count \in 1..MaxWorkers :
        LET sieve_method == IF segmented_sieve THEN "segmented" ELSE "auto"
            sieveError == SieveRaises(limit)
        IN  /\ pc = "idle"
            /\ runs' = runs + 1
            /\ entry_point' = "main"
            /\ processes_arg' = processes
            /\ distributed' = TRUE
            /\ use_checkpoint' = checkpoint
            /\ strategy' = SelectStrategy(limit, sieve_method, low_memory)
            /\ known_primes' = IF sieveError THEN {}
                               ELSE generate_known_primes(limit, sieve_method, low_memory)
            /\ ckpt_loaded' = PyNone
            /\ found' = "unused"
            /\ PoolStart(bs, cpu_count)
            /\ results' = NoResults
            /\ sink' = <<>>
            /\ error' = IF sieveError THEN Raise("ValueError", <<>>) ELSE NoError
            /\ pc' = IF sieveError THEN "failed" ELSE "pool"
            /\ NoScan
            /\ UNCHANGED <<classifierVars, importVars, limit, low_memory, fs, classifier, known_primes_arg,
                           raising, sieveVars, storeVars>>

CliNext ==
    \/ MainDistributed
    \/ WorkerTake
    \/ WorkerFinish
    \/ Combine

CliSpec == CliInit /\ [][CliNext]_vars

\* C18: in a distributed run started from the command line with
\* --processes P the pool that processes the batches has exactly P worker
\* processes.
C18_PoolHasRequestedProcesses ==
    (entry_point = "main" /\ pc \in {"pool", "done"} /\ ~processes_arg.none) =>
        /\ num_processes = processes_arg.value
        /\ DOMAIN worker = 1..processes_arg.value

(***************************************************************************)
(* CapSpec: validate_primality_test_distributed on a range that holds more *)
(* mismatches than one batch retains: every scanned number a false         *)
(* positive, or every scanned number a false negative.                     *)
(***************************************************************************)
CapInit ==
    /\ limit = CapScenarioLimit
    /\ \/ classifier = "always" /\ known_primes_arg = SetArg({})
       \/ classifier = "never" /\ known_primes_arg = SetArg(Scanned(limit))
    /\ raising = NeverRaises
    /\ low_memory = FALSE
    /\ ScanStart

CapSpec == CapInit /\ [][DistNext]_vars

\* C19: a distributed run retains min(false_positives, 1000) false-positive
\* numbers and min(false_negatives, 1000) false-negative numbers, as the
\* sequential scan of the same range does, for every batch_size.
C19_SameGlobalCap ==
    pc = "done" =>
        LET u == UninterruptedScan(limit, classifier, known_primes)
        IN  /\ Len(results.false_positive_numbers) =
                   Min(results.false_positives, SAMPLE_CAP)
            /\ Len(results.false_negative_numbers) =
                   Min(results.false_negatives, SAMPLE_CAP)
            /\ Len(results.false_positive_numbers) = Len(u.false_positive_numbers)
            /\ Len(results.false_negative_numbers) = Len(u.false_negative_numbers)

(***************************************************************************)
(* ClassifierSpec: calls of is_prime on one PrimeClassifier object.        *)
(***************************************************************************)
ClassifiedNumbers == (-MaxNegLimit)..MaxClassified

ClassifierInit ==
    /\ limit = 0
    /\ low_memory = FALSE
    /\ fs = <<>>
    /\ classifier = "is_prime"
    /\ known_primes_arg = NoneArg
    /\ raising = NeverRaises
    /\ ScanStart

\* self.is_prime(k): the cached answer if there is one, else the answer of the
\* special cases and the trial division, which is put in the cache
is_prime ==
    \E k \in ClassifiedNumbers :
        /\ is_prime_calls < MaxIsPrimeCalls
        /\ is_prime_calls' = is_prime_calls + 1
        /\ IF k \in DOMAIN prime_cache
           THEN /\ is_prime_last' = [called |-> TRUE, n |-> k,
                                     value |-> prime_cache[k], cached |-> TRUE]
                /\ UNCHANGED prime_cache
           ELSE /\ is_prime_last' = [called |-> TRUE, n |-> k,
                                     value |-> PrimeClassifier_is_prime(k),
                                     cached |-> FALSE]
                /\ prime_cache' = (k :> PrimeClassifier_is_prime(k)) @@ prime_cache
        /\ UNCHANGED <<limit, low_memory, fs, sieveVars, storeVars, scanVars, distVars,
                       callVars, importVars>>

ClassifierNext == is_prime

ClassifierSpec == ClassifierInit /\ [][ClassifierNext]_vars

\* C21: every call of is_prime(n) returns TRUE iff n is prime (FALSE below
\* 2), whatever calls were made before and whether or not the answer came
\* from prime_cache; every cached entry is the answer of a trial division, and
\* an entry never changes or disappears once written.
C21_IsPrimeExactAndStable ==
    /\ [](is_prime_last.called =>
             is_prime_last.value = TrialDivisionPrime(is_prime_last.n))
    /\ [](\A k \in DOMAIN prime_cache : prime_cache[k] = TrialDivisionPrime(k))
    /\ [][\A k \in DOMAIN prime_cache :
              k \in DOMAIN prime_cache' /\ prime_cache'[k] = prime_cache[k]]_vars

\* 25 was classified, then another number, then 25 again: the second answer
\* for 25 came from the cache
C21_Witness ==
    /\ is_prime_calls = 3
    /\ is_prime_last = [called |-> TRUE, n |-> 25, value |-> FALSE, cached |-> TRUE]
    /\ DOMAIN prime_cache = {-1, 25}

(***************************************************************************)
(* ImportSpec: load_known_primes_from_file on a text file, or on a path    *)
(* that names no file, and a validation given the set it returned.  A line *)
(* is a sequence of characters that ends with its newline.                 *)
(***************************************************************************)
FileChars == {"2", "-", " ", "x"}
Whitespace == {" ", "\n"}

\* the lines a file can hold: up to MaxLineLen characters and the newline
FileLines ==
    {body \o <<"\n">> : body \in UNION {[1..len -> FileChars] : len \in 0..MaxLineLen}}

\* str.strip(): the string without its leading and trailing whitespace
PyStrip(str) ==
    LET inked == {i \in DOMAIN str : str[i] \notin Whitespace}
    IN  IF inked = {} THEN <<>>
        ELSE SubSeq(str, CHOOSE i \in inked : \A j \in inked : i <= j,
                         CHOOSE i \in inked : \A j \in inked : i >= j)

\* the number a sequence of decimal digits writes
RECURSIVE DigitsValue(_)
DigitsValue(ds) ==
    IF ds = <<>> THEN 0
    ELSE 10 * DigitsValue(SubSeq(ds, 1, Len(ds) - 1))
         + (CHOOSE d \in 0..9 : DigitChars[d + 1] = ds[Len(ds)])

\* an int() that takes the sign for a digit-free number 0
PyInt_signonly(str) ==
    LET digits == IF str # <<>> /\ str[1] = "-" THEN Tail(str) ELSE str
    IN  IF str # <<>> /\ \A i \in DOMAIN digits : \E d \in 0..9 : DigitChars[d + 1] = digits[i]
        THEN [raised |-> FALSE,
              value |-> IF str[1] = "-" THEN -DigitsValue(digits) ELSE DigitsValue(digits)]
        ELSE [raised |-> TRUE, value |-> 0]

\* int(str) for a stripped string: an optional minus sign and one or more
\* digits, else ValueError
PyInt(str) ==
    LET digits == IF str # <<>> /\ str[1] = "-" THEN Tail(str) ELSE str
    IN  IF digits # <<>> /\ \A i \in DOMAIN digits : \E d \in 0..9 : DigitChars[d + 1] = digits[i]
        THEN [raised |-> FALSE,
              value |-> IF str[1] = "-" THEN -DigitsValue(digits) ELSE DigitsValue(digits)]
        ELSE [raised |-> TRUE, value |-> 0]

ImportInit ==
    /\ limit \in {2, MaxCallLimit}
    /\ low_memory = FALSE
    /\ classifier = "is_prime"
    /\ known_primes_arg = NoneArg
    /\ raising = NeverRaises
    /\ ScanStart

\* the call up to the loop: known_primes = set(), open(filepath); a missing
\* file is FileNotFoundError, caught: return set()
LoadStart ==
    \E ex \in BOOLEAN :
        /\ pc = "idle" /\ runs = 0
        /\ load_pc = "idle"
        /\ file_exists' = ex
        /\ loaded' = {}
        /\ lines_read' = 0
        /\ line' = <<>>
        /\ load_pc' = IF ex THEN "reading" ELSE "returned"
        /\ known_primes_arg' = IF ex THEN known_primes_arg ELSE SetArg({})
        /\ UNCHANGED <<limit, low_memory, fs, sieveVars, storeVars, distVars, callVars,
                       classifierVars, pc, classifier, known_primes, batch_size,
                       use_checkpoint, runs, ckpt_loaded, found, start, batch_start, n,
                       true_positives, false_positives, false_negatives,
                       false_positive_numbers, false_negative_numbers, results>>

\* for line in f: the file hands over its next line
ReadLine ==
    \E l \in FileLines :
        /\ pc = "idle" /\ runs = 0
        /\ load_pc = "reading"
        /\ lines_read < MaxFileLines
        /\ line' = l
        /\ lines_read' = lines_read + 1
        /\ load_pc' = "line"
        /\ UNCHANGED <<limit, low_memory, fs, sieveVars, storeVars, scanVars, distVars,
                       callVars, classifierVars, file_exists, loaded>>

\* the body of the loop: prime = int(line.strip()); known_primes.add(prime),
\* or continue on ValueError
AddLine ==
    /\ pc = "idle" /\ runs = 0
    /\ load_pc = "line"
    /\ LET prime == PyInt(PyStrip(line))
       IN  loaded' = IF prime.raised THEN loaded ELSE loaded \cup {prime.value}
    /\ line' = <<>>
    /\ load_pc' = "reading"
    /\ UNCHANGED <<limit, low_memory, fs, sieveVars, storeVars, scanVars, distVars,
                   callVars, classifierVars, file_exists, lines_read>>

\* the file is at its end: return known_primes, which the caller passes on as
\* the known_primes of a validation
LoadReturn ==
    /\ pc = "idle" /\ runs = 0
    /\ load_pc = "reading"
    /\ load_pc' = "returned"
    /\ known_primes_arg' = SetArg(loaded)
    /\ UNCHANGED <<limit, low_memory, fs, sieveVars, storeVars, distVars, callVars,
                   classifierVars, file_exists, line, lines_read, loaded,
                   pc, classifier, known_primes, batch_size,
                   use_checkpoint, runs, ckpt_loaded, found, start, batch_start, n,
                   true_positives, false_positives, false_negatives,
                   false_positive_numbers, false_negative_numbers, results>>

\* the caller passes the set the loader returned to validate_primality_test
ValidateImported == load_pc = "returned" /\ StartRun

\* the caller passes it to validate_primality_test_distributed
ValidateImportedDistributed == load_pc = "returned" /\ StartDistributed

ImportNext ==
    \/ LoadStart
    \/ ReadLine
    \/ AddLine
    \/ LoadReturn
    \/ ValidateImported
    \/ ScanNumber
    \/ EndBatch
    \/ Finish
    \/ ValidateImportedDistributed
    \/ WorkerTake
    \/ WorkerFinish
    \/ Combine

ImportSpec == ImportInit /\ [][ImportNext]_vars

\* the integers a file of these characters can write
FileIntegers ==
    {k \in (-Pow10(MaxLineLen))..Pow10(MaxLineLen) :
        \A i \in DOMAIN IntToStr(k) : IntToStr(k)[i] \in FileChars}

\* the integers written on a line: str(k) between blanks
WrittenOn(l) ==
    {k \in FileIntegers :
        \E i \in DOMAIN l, j \in DOMAIN l :
            /\ SubSeq(l, i, j) = IntToStr(k)
            /\ \A m \in DOMAIN l : (m < i \/ m > j) => l[m] \in Whitespace}

\* the counters of a results dict
CountersOf(r) == <<r.true_positives, r.false_positives, r.false_negatives>>

\* C22: load_known_primes_from_file adds to its set exactly the integer
\* written on each line that is an integer between blanks and nothing for any
\* other line, returns the set it built, and returns the empty set when the
\* file does not exist; it never raises.  A validation given the returned set
\* counts as a validation given the generated set with the same elements.
C22_ImportedSetIsWhatTheFileHolds ==
    /\ [][load_pc = "line" => loaded' = loaded \cup WrittenOn(line)]_vars
    /\ [](load_pc = "returned" =>
             /\ ~known_primes_arg.none
             /\ known_primes_arg.set = IF file_exists THEN loaded ELSE {})
    /\ []((load_pc = "returned" /\ pc = "done") =>
             /\ known_primes = known_primes_arg.set
             /\ known_primes_arg.set = generate_known_primes(limit, "auto", FALSE) =>
                    CountersOf(results) =
                        CountersOf(UninterruptedScan(limit, classifier,
                                       generate_known_primes(limit, "auto", FALSE))))

\* a file with the line ' -2' and a line that is no integer gave {-2}: the
\* validation of [2, 2] against it counted 2 as a false positive
C22_Witness ==
    /\ load_pc = "returned"
    /\ file_exists
    /\ lines_read = 2
    /\ loaded = {-2}
    /\ pc = "done"
    /\ limit = 2
    /\ results.false_positives = 1

(***************************************************************************)
(* Claims about the checkpoints a sequential run writes and resumes from.  *)
(***************************************************************************)
\* a call of validate_primality_test with use_checkpoint set that found no
\* checkpoint file, from its first batch to its return
FreshCheckpointedRun ==
    /\ entry_point = "validate_primality_test"
    /\ use_checkpoint
    /\ found = "absent"
    /\ pc \in {"scan", "finish", "done"}

\* the numbers of true positives, false positives and false negatives among
\* the scanned numbers of [first, last]
CountsOver(first, last) ==
    LET seen == {k \in Scanned(last) : k >= first}
    IN  [true_positives |->
             Cardinality({k \in seen : Classify(classifier, k) /\ k \in known_primes}),
         false_positives |->
             Cardinality({k \in seen : Classify(classifier, k) /\ k \notin known_primes}),
         false_negatives |->
             Cardinality({k \in seen : ~Classify(classifier, k) /\ k \in known_primes})]

\* C23: in a checkpointed run that found no checkpoint, the checkpoint file
\* changes only at the end of a batch whose numbers are all scanned, and the
\* stored checkpoint has last_processed = the end of the batch completed last
\* and the counts of true positives, false positives and false negatives
\* among the scanned n of [2, last_processed]; before the first batch ends
\* there is none.
C23_CheckpointsAtBatchBoundaries ==
    /\ [](FreshCheckpointedRun =>
             IF batch_start = 2 THEN FileState(fs, limit) = "absent"
             ELSE LET stored == load_checkpoint(fs, limit)
                      counts == CountsOver(2, Min(batch_start - 1, limit))
                  IN  /\ FileState(fs, limit) = "valid"
                      /\ stored.data["last_processed"] = Min(batch_start - 1, limit)
                      /\ stored.data["true_positives"] = counts.true_positives
                      /\ stored.data["false_positives"] = counts.false_positives
                      /\ stored.data["false_negatives"] = counts.false_negatives)
    /\ [][fs' # fs =>
            /\ pc = "scan" /\ use_checkpoint /\ n = BatchEnd + 1
            /\ load_checkpoint(fs', limit).data["last_processed"] = BatchEnd]_vars

\* limit 9 in batches of 3: the batch [2, 4] is done and stored (2 and 3 true
\* positives), the scan is inside [5, 7]
C23_Witness ==
    /\ FreshCheckpointedRun
    /\ limit = 9
    /\ batch_size = 3
    /\ classifier = "is_prime"
    /\ known_primes_arg = NoneArg
    /\ pc = "scan"
    /\ n = 6
    /\ load_checkpoint(fs, limit).data["last_processed"] = 4
    /\ load_checkpoint(fs, limit).data["true_positives"] = 2
    /\ true_positives = 3

(***************************************************************************)
(* ResumeSpec: calls of validate_primality_test on one output directory,   *)
(* any of which may be stopped at any point of its scan.                   *)
(***************************************************************************)
ResumeNext ==
    \/ StartRun
    \/ ScanNumber
    \/ EndBatch
    \/ Finish
    \/ Stop

ResumeSpec == Init /\ [][ResumeNext]_vars

\* a call of validate_primality_test with use_checkpoint set, from its first
\* batch to its return
CheckpointedRun ==
    /\ entry_point = "validate_primality_test"
    /\ use_checkpoint
    /\ pc \in {"scan", "finish", "done"}

Orders(count) ==
    {p \in [1..count -> 1..count] : \A i, j \in 1..count : p[i] = p[j] => i = j}

\* the batch results added up in the order p, from its i-th place on
RECURSIVE SumInOrder(_, _, _)
SumInOrder(p, i, key) ==
    IF i > Len(p) THEN 0 ELSE batch_results[p[i]][key] + SumInOrder(p, i + 1, key)

\* C25: the result of each batch is that of validate_primality_test_batch on
\* its range whenever the batch was executed and whichever worker finished
\* first, and the true_positives, false_positives and false_negatives of the
\* distributed run are the sums of the batch results taken in any order.
C25_MergeIsOrderIndependent ==
    /\ pc \in {"pool", "done"} =>
          \A i \in DOMAIN batch_results :
              batch_results[i] =
                  validate_primality_test_batch(batches[i][1], batches[i][2],
                                                classifier, known_primes)
    /\ (pc = "done" /\ Len(batches) <= MaxPermuted) =>
          \A p \in Orders(Len(batches)) :
              /\ results.true_positives = SumInOrder(p, 1, "true_positives")
              /\ results.false_positives = SumInOrder(p, 1, "false_positives")
              /\ results.false_negatives = SumInOrder(p, 1, "false_negatives")

\* limit 9 in batches of 3, 'odd and > 1': the batches count (1, 0, 1),
\* (2, 0, 0) and (0, 1, 0), and the run returned (3, 1, 1)
C25_Witness ==
    /\ pc = "done"
    /\ limit = 9
    /\ batch_size = 3
    /\ num_processes = 2
    /\ classifier = "odd_gt1"
    /\ known_primes_arg = NoneArg
    /\ batch_results[1].false_negatives = 1
    /\ batch_results[2].true_positives = 2
    /\ batch_results[3].false_positives = 1
    /\ CountersOf(results) = <<3, 1, 1>>

(***************************************************************************)
(* SampleSpec: one sequential call on a range that holds more mismatches   *)
(* than the sample lists retain: every scanned number a false positive, or *)
(* every scanned number a false negative.                                  *)
(***************************************************************************)
SampleInit ==
    /\ limit = SampleScenarioLimit
    /\ \/ classifier = "always" /\ known_primes_arg = SetArg({})
       \/ classifier = "never" /\ known_primes_arg = SetArg(Scanned(limit))
    /\ raising = NeverRaises
    /\ low_memory = FALSE
    /\ ScanStart

\* the first call on the output directory, in batches of MaxBatch numbers
StartSampleRun == runs = 0 /\ StartRun /\ batch_size' = MaxBatch

SampleNext ==
    \/ StartSampleRun
    \/ ScanNumber
    \/ EndBatch
    \/ Finish

SampleSpec == SampleInit /\ [][SampleNext]_vars

\* sample is the first min(count, 1000) numbers, in increasing order, of the
\* scanned numbers below n that are mismatches of the kind the classifier
\* answer says (TRUE: false positives, FALSE: false negatives)
FirstMismatches(sample, count, answer) ==
    LET mismatch(k) == Classify(classifier, k) = answer /\ (k \in known_primes) # answer
        last == Len(sample)
    IN  /\ count = Cardinality({k \in Scanned(limit) : k < n /\ mismatch(k)})
        /\ last = Min(count, SAMPLE_CAP)
        /\ \A i \in 1..last : mismatch(sample[i]) /\ sample[i] < n
        /\ \A i \in 1..(last - 1) : sample[i] < sample[i + 1]
        /\ last > 0 =>
               Cardinality({k \in Scanned(limit) : k <= sample[last] /\ mismatch(k)}) = last

\* C26: at every point of a sequential scan that was not resumed the
\* false-positive list is the first min(false_positives, 1000) false
\* positives scanned so far, in increasing order, and the false-negative list
\* the first min(false_negatives, 1000) false negatives; the counters count
\* every mismatch, those past the cap included; the returned lists and
\* counters are those of the end of the scan.
C26_SamplesAreFirstMismatches ==
    (entry_point = "validate_primality_test" /\ pc \in {"scan", "finish", "done"}
        /\ found # "valid") =>
        /\ FirstMismatches(false_positive_numbers, false_positives, TRUE)
        /\ FirstMismatches(false_negative_numbers, false_negatives, FALSE)
        /\ pc = "done" =>
              /\ results.false_positive_numbers = false_positive_numbers
              /\ results.false_negative_numbers = false_negative_numbers
              /\ results.false_positives = false_positives
              /\ results.false_negatives = false_negatives

\* limit 2003, every scanned number a false positive: 1002 are counted, the
\* list holds the first 1000, 2 to 1999, and 2001 and 2003 are not in it
C26_Witness ==
    /\ pc = "done"
    /\ classifier = "always"
    /\ found # "valid"
    /\ results.false_positives = 1002
    /\ Len(results.false_positive_numbers) = 1000
    /\ results.false_positive_numbers[1] = 2
    /\ results.false_positive_numbers[1000] = 1999

(***************************************************************************)
(* Claims about the progress of one scan.                                  *)
(***************************************************************************)
\* a step of the loops of one call: a number, the end of a batch, or the
\* return
ScanProgress ==
    /\ entry_point = "validate_primality_test"
    /\ pc \in {"scan", "finish"}
    /\ pc' \in {"scan", "finish", "done"}

\* C27: from step to step of one scan, resumed or not, true_positives,
\* false_positives and false_negatives never decrease, and the returned
\* counters are the last ones; every checkpoint the scan writes has a
\* last_processed greater than that of the checkpoint stored before it,
\* greater than that of the checkpoint the run loaded, and at most limit.
C27_CountersAndCursorsGrow ==
    /\ [][ScanProgress =>
            /\ true_positives' >= true_positives
            /\ false_positives' >= false_positives
            /\ false_negatives' >= false_negatives
            /\ pc' = "done" =>
                  CountersOf(results') =
                      <<true_positives, false_positives, false_negatives>>]_vars
    /\ [][(ScanProgress /\ use_checkpoint /\ batch_start' # batch_start) =>
            LET before == load_checkpoint(fs, limit)
                written == load_checkpoint(fs', limit)
            IN  /\ ~written.none
                /\ written.data["last_processed"] = BatchEnd
                /\ written.data["last_processed"] <= limit
                /\ ~before.none =>
                      written.data["last_processed"] > before.data["last_processed"]
                /\ found = "valid" =>
                      written.data["last_processed"] >
                          ckpt_loaded.data["last_processed"]]_vars
    /\ [][(fs' # fs) => (ScanProgress /\ use_checkpoint /\ batch_start' # batch_start)]_vars

\* limit 9: a run resumed from the checkpoint at 4 has written the checkpoint
\* at 7 and is scanning the batch after it
C27_Witness ==
    /\ entry_point = "validate_primality_test"
    /\ pc = "scan"
    /\ use_checkpoint
    /\ runs = 2
    /\ limit = 9
    /\ classifier = "is_prime"
    /\ known_primes_arg = NoneArg
    /\ found = "valid"
    /\ ckpt_loaded.data["last_processed"] = 4
    /\ ckpt_loaded.data["true_positives"] = 2
    /\ load_checkpoint(fs, limit).data["last_processed"] = 7
    /\ load_checkpoint(fs, limit).data["true_positives"] = 4
    /\ n = 9

(***************************************************************************)
(* Claims about the counters of a complete scan.                           *)
(***************************************************************************)
\* a validation has returned after scanning all of [2, limit]: a distributed
\* one, or a sequential one that did not start from a checkpoint
FullScanReturned ==
    /\ Validated
    /\ (entry_point = "validate_primality_test" /\ ~distributed) => found # "valid"

\* the elements of the ground truth that count in total_known_primes and that
\* no scan visits
Unvisited(G, lim) == {p \in G : p <= lim /\ (p < 2 \/ (p > 2 /\ p % 2 = 0))}

\* C28: after a complete scan of [2, limit] (sequential and not resumed, or
\* distributed) against a ground truth one of the sieves produced,
\* true_positives + false_negatives = total_known_primes and accuracy equals
\* recall; against any ground truth the sum is total_known_primes minus the
\* number of elements <= limit that no scan visits (those below 2 and the
\* even ones above 2), so the equality fails only when there is one.
C28_KnownPrimesAreAllCounted ==
    FullScanReturned =>
        /\ results.true_positives + results.false_negatives +
               Cardinality(Unvisited(known_primes, limit)) = results.total_known_primes
        /\ results.true_positives + results.false_negatives # results.total_known_primes
               => Unvisited(known_primes, limit) # {}
        /\ GroundTruthFromStrategy =>
               /\ results.true_positives + results.false_negatives =
                      results.total_known_primes
               /\ results.accuracy = results.recall

\* limit 4 with the set of the segmented sieve and the classifier that takes
\* every odd number above 1 for a prime: 3 was found and 2 was missed, and
\* accuracy = recall = 1/2
C28_Witness ==
    /\ FullScanReturned
    /\ limit = 4
    /\ classifier = "odd_gt1"
    /\ known_primes_arg = SetArg(generate_known_primes(4, "segmented", FALSE))
    /\ known_primes = {2, 3}
    /\ results.true_positives = 1
    /\ results.false_negatives = 1
    /\ results.total_known_primes = 2
    /\ results.accuracy = PyTrueDiv(Number(1), Number(2))
    /\ results.recall = results.accuracy

(***************************************************************************)
(* Claims about a run that finds its scan already complete.                *)
(***************************************************************************)
\* a call of validate_primality_test with use_checkpoint set that loaded a
\* checkpoint whose last_processed is the limit
LoadedCompleteCheckpoint ==
    /\ entry_point = "validate_primality_test"
    /\ ~distributed
    /\ use_checkpoint
    /\ found = "valid"
    /\ ckpt_loaded.data["last_processed"] = limit

\* C29: a run with checkpointing for a limit whose stored checkpoint has
\* last_processed = limit goes from the load straight to the metrics: it
\* classifies no number (the loop over the batches is empty), it writes no
\* checkpoint (the output directory stays as it was), and it returns the
\* counters of that checkpoint with empty sample lists.
C29_CompleteCheckpointIsReturned ==
    /\ [](LoadedCompleteCheckpoint =>
             /\ pc \in {"finish", "done"}
             /\ start = limit + 1
             /\ n = start
             /\ load_checkpoint(fs, limit) = ckpt_loaded
             /\ true_positives = ckpt_loaded.data["true_positives"]
             /\ false_positives = ckpt_loaded.data["false_positives"]
             /\ false_negatives = ckpt_loaded.data["false_negatives"]
             /\ false_positive_numbers = <<>>
             /\ false_negative_numbers = <<>>
             /\ pc = "done" =>
                    /\ results.returned
                    /\ results.true_positives = ckpt_loaded.data["true_positives"]
                    /\ results.false_positives = ckpt_loaded.data["false_positives"]
                    /\ results.false_negatives = ckpt_loaded.data["false_negatives"]
                    /\ results.false_positive_numbers = <<>>
                    /\ results.false_negative_numbers = <<>>)
    /\ [][LoadedCompleteCheckpoint' => fs' = fs]_vars
    /\ [][(LoadedCompleteCheckpoint /\ LoadedCompleteCheckpoint') =>
            /\ n' = n
            /\ true_positives' = true_positives
            /\ false_positives' = false_positives
            /\ false_negatives' = false_negatives]_vars

\* limit 9 with the classifier that takes every number for a prime: the first
\* run left the checkpoint at 9 with 4 true and 1 false positive, and the
\* second run returned these counters with no sample
C29_Witness ==
    /\ LoadedCompleteCheckpoint
    /\ pc = "done"
    /\ runs = 2
    /\ limit = 9
    /\ classifier = "always"
    /\ known_primes_arg = NoneArg
    /\ ckpt_loaded.data["timestamp"] = 1
    /\ load_checkpoint(fs, limit).data["timestamp"] = 1
    /\ results.true_positives = 4
    /\ results.false_positives = 1
    /\ results.false_negatives = 0
    /\ results.false_positive_numbers = <<>>

(***************************************************************************)
(* ResumedSampleSpec: a checkpointed call that is stopped after its first   *)
(* batch and called again with checkpointing, on a short range and on the  *)
(* range of SampleSpec, where every scanned number is a mismatch.          *)
(***************************************************************************)
ResumedSampleInit ==
    /\ limit \in {MaxLimit, SampleScenarioLimit}
    /\ \/ classifier = "always" /\ known_primes_arg = SetArg({})
       \/ classifier = "never" /\ known_primes_arg = SetArg(Scanned(limit))
    /\ raising = NeverRaises
    /\ low_memory = FALSE
    /\ ScanStart

\* the first call on the output directory, with use_checkpoint
StartFirstRun == runs = 0 /\ StartRun /\ use_checkpoint'

\* the process is stopped when the checkpoint of the first batch is written
StopAfterFirstBatch ==
    /\ runs = 1
    /\ batch_start = start + batch_size
    /\ n = batch_start
    /\ Stop

\* the second call, with use_checkpoint, in batches of MaxBatch numbers
StartResumedRun == runs = 1 /\ StartRun /\ use_checkpoint' /\ batch_size' = MaxBatch

ResumedSampleNext ==
    \/ StartFirstRun
    \/ ScanNumber
    \/ EndBatch
    \/ StopAfterFirstBatch
    \/ StartResumedRun
    \/ Finish

ResumedSampleSpec == ResumedSampleInit /\ [][ResumedSampleNext]_vars

\* a sequential call that started from a loaded checkpoint, from its first
\* batch to its return
ResumedRun ==
    /\ entry_point = "validate_primality_test"
    /\ ~distributed
    /\ found = "valid"
    /\ pc \in {"scan", "finish", "done"}

\* sample is the first min(., 1000) numbers, in increasing order, of the
\* scanned numbers above c and below n that are mismatches of the kind the
\* classifier answer says, and count is the number of such mismatches among
\* all the scanned numbers below n
MismatchesAfter(sample, count, c, answer) ==
    LET mismatch(k) == Classify(classifier, k) = answer /\ (k \in known_primes) # answer
        after == {k \in Scanned(limit) : c < k /\ k < n /\ mismatch(k)}
        last == Len(sample)
    IN  /\ count = Cardinality({k \in Scanned(limit) : k < n /\ mismatch(k)})
        /\ last = Min(Cardinality(after), SAMPLE_CAP)
        /\ \A i \in 1..last : sample[i] \in after
        /\ \A i \in 1..(last - 1) : sample[i] < sample[i + 1]
        /\ last > 0 => Cardinality({k \in after : k <= sample[last]}) = last

\* C30: a checkpoint holds no sample list; in a run resumed from a
\* checkpoint with cursor c the false-positive and false-negative lists hold
\* only numbers greater than c, the first at most 1000 mismatches found in
\* (c, limit] in increasing order, while the counters count the mismatches of
\* the whole of [2, limit], those before c included; the returned lists and
\* counters are those of the end of the scan.
C30_ResumedSamplesStartAtCursor ==
    /\ \A d \in {ckpt_loaded, load_checkpoint(fs, limit)} :
           ~d.none => DOMAIN d.data \cap
                          {"false_positive_numbers", "false_negative_numbers"} = {}
    /\ ResumedRun =>
           LET c == ckpt_loaded.data["last_processed"]
           IN  /\ MismatchesAfter(false_positive_numbers, false_positives, c, TRUE)
               /\ MismatchesAfter(false_negative_numbers, false_negatives, c, FALSE)
               /\ pc = "done" =>
                     /\ results.false_positive_numbers = false_positive_numbers
                     /\ results.false_negative_numbers = false_negative_numbers
                     /\ results.false_positives = false_positives
                     /\ results.false_negatives = false_negatives

\* limit 9, every scanned number a false positive: the first call was stopped
\* after its batch [2, 3], and the call resumed from cursor 3 returned 5 false
\* positives with the list 5, 7, 9, shorter than min(5, 1000)
C30_Witness ==
    /\ ResumedRun
    /\ pc = "done"
    /\ limit = MaxLimit
    /\ classifier = "always"
    /\ ckpt_loaded.data["last_processed"] = 3
    /\ ckpt_loaded.data["false_positives"] = 2
    /\ results.false_positives = 5
    /\ results.false_positive_numbers = <<5, 7, 9>>
    /\ Len(results.false_positive_numbers) < Min(results.false_positives, SAMPLE_CAP)

====
